---- MODULE Spec2Model ----
(***************************************************************************)
(* The streaming LLM-call orchestration of llm-sanitizer:                  *)
(*   - the recursive text splitter (src/shared/split-text.js),             *)
(*   - OpenAIAgentsProvider.call and its overflow recovery                 *)
(*     (src/providers/openai-agents.js),                                   *)
(*   - the background service worker's per-tab sessions                    *)
(*     (src/background/index.js).                                          *)
(* A text is a sequence of one-character strings; its length is the        *)
(* number of UTF-16 code units, as String.prototype.length counts it.      *)
(*                                                                         *)
(* Seven specifications share the variables:                               *)
(*   SpecSplit  applies splitText to every bounded text and budget,        *)
(*   SpecRec    runs splitText invocation by invocation of                 *)
(*              _splitRecursive,                                           *)
(*   SpecCall   runs one OpenAIAgentsProvider.call against every backend   *)
(*              behaviour and every timing of the abort signal,            *)
(*   SpecTabs   runs sanitizeTab sessions against the tab lifecycle,       *)
(*   SpecSumm   runs one ChromeSummarizerProvider.call                     *)
(*              (src/providers/chrome-summarizer.js) against every         *)
(*              behaviour of the Summarizer API,                           *)
(*   SpecBudget computes OpenAIAgentsProvider.call's chunk budget for      *)
(*              every bounded context size and prompt length,              *)
(*   SpecErr    passes every error of a catalogue through the catch block  *)
(*              of OpenAIAgentsProvider.call.                              *)
(* Each leaves the other parts' variables at their idle values.            *)
(***************************************************************************)
EXTENDS Integers, Sequences, FiniteSets, TLC

VARIABLES
    mode,           \* which part runs: "split", "rec", "call", "tabs", "summ", "budget" or "err"
    text,           \* the text handed to splitText / to provider.call
    maxChars,       \* splitText's bound (SpecSplit)
    chunks,         \* splitText's result (SpecSplit: the result; SpecCall: call's chunks)
    pc,             \* position of the running operation
    \* ---- OpenAIAgentsProvider.call
    maxChunkChars,  \* the chunk budget in characters
    streamLen,      \* the backend: how many fragments a run's complete text stream carries
    aborted,        \* signal.aborted
    i,              \* the for loop's index in call
    fullText,       \* call's running aggregate
    stack,          \* the active _processChunkWithRetry invocations, outermost first
    inner,          \* position of _streamChunk's inner async function
    stream,         \* what the backend holds ready before the first read
    chunkText,      \* _streamChunk's chunkText
    outcome,        \* how call settled
    \* ---- history of one call (what a mock backend and a mock onUpdate record)
    submitted,      \* the runner.run submissions, in order
    settled,        \* how call saw each submission end
    emitted,        \* the deltas passed to onUpdate, in order
    inFlight,       \* the submissions whose inner async function has not ended
    abortAt,        \* where the call was when the signal fired
    \* ---- ChromeSummarizerProvider.call (SpecSumm)
    _summarizer,    \* this._summarizer: "none" (null) or "session"
    session,        \* the summarizer Summarizer.create makes: "none", "creating", "live", "destroyed"
    summaries,      \* the array the running loop pushes to (summaries, reduced)
    rounds,         \* how many times _recursiveSummarize has been entered (StackDepth
                    \* once it has filled the call stack)
    availability,   \* what the browser reports: "absent" (no Summarizer in self) or
                    \* the value of Summarizer.availability()
    released,       \* how many times the summarizer's destroy() has been invoked
    \* ---- the inputs of OpenAIAgentsProvider.call's chunk budget (SpecBudget)
    contextLength,  \* this.settings.contextLength (0: not set)
    detected,       \* what _detectContextLength returns (0: null)
    promptLength,   \* prompt.length
    \* ---- the error that call's catch block receives (SpecErr)
    thrown,         \* its origin (kind), name and message
    \* ---- the invocations of _splitRecursive (SpecRec)
    pending,        \* what is still to be returned, in order: invocations and finished chunks
    \* ---- the background service worker and the tabs' pages (SpecTabs)
    sessions,             \* the sanitizeTab invocations, in order of their start
    tabAbortControllers,  \* Map tabId -> AbortController (the session that made it; 0: no entry)
    keepalivePending,     \* Map tabId -> { resolve } (the session whose promise it resolves; 0: no entry)
    ports,                \* the keepalive ports the pages have opened
    modal,                \* per tab: the keepAlivePort of the content script's current modal (0: none)
    url                   \* per tab: "page", "protected" (chrome://, edge://) or "closed"

(***************************************************************************)
(* Bounds of the model.                                                    *)
(***************************************************************************)
MaxTextLen == 5
MaxBudget == 3
MaxCallSize == 4
MaxChunkChars == 2
MaxSessions == 2
MaxSummLen == 4
MaxSummQuota == 1
MaxSummaryLen == 2
MaxRounds == 2
MaxContextSteps == 8
MaxPromptSteps == 4

Min(a, b) == IF a <= b THEN a ELSE b

(***************************************************************************)
(* split-text.js                                                           *)
(***************************************************************************)
NL == "\n"

Chars == {"a", " ", NL, "."}

SEPARATORS_spaceFirst == << <<" ">>, <<NL, NL>>, <<NL>>, <<".", " ">> >>

\* const SEPARATORS = ['\n\n', '\n', '. ', ' '];
SEPARATORS == << <<NL, NL>>, <<NL>>, <<".", " ">>, <<" ">> >>

\* every text of at most n characters
TextsUpTo(n) == UNION {[1..k -> Chars] : k \in 0..n}

\* the texts handed to provider.call: a run of one character, letters or
\* spaces, of fewer than MaxCallSize characters, or two such runs of one or two
\* characters each on two lines (a line of spaces before or after a line of
\* letters among them)
CallChars == {"a", " "}

CallTexts ==
    LET runs(lo, hi) == {[k \in 1..n |-> c] : n \in lo..hi, c \in CallChars}
    IN  runs(0, MaxCallSize - 1)
            \cup {l1 \o <<NL>> \o l2 : l1 \in runs(1, 2), l2 \in runs(1, 2)}

\* String.prototype.slice(start, end) for 0 <= start <= end: code units start..end-1
slice(s, start, end) == SubSeq(s, start + 1, Min(end, Len(s)))

\* whether sep occurs in s at (1-based) position `at`
occursAt(s, sep, at) ==
    /\ at >= 1
    /\ at + Len(sep) - 1 <= Len(s)
    /\ SubSeq(s, at, at + Len(sep) - 1) = sep

RECURSIVE splitFrom(_, _, _, _)
\* the parts of s from position start on, the scan for sep being at position `at`
splitFrom(s, sep, at, start) ==
    IF at + Len(sep) - 1 > Len(s)
    THEN << SubSeq(s, start, Len(s)) >>
    ELSE IF occursAt(s, sep, at)
         THEN << SubSeq(s, start, at - 1) >>
                  \o splitFrom(s, sep, at + Len(sep), at + Len(sep))
         ELSE splitFrom(s, sep, at + 1, start)

\* String.prototype.split(sep) for a non-empty string sep: the occurrences of sep
\* are found left to right, without overlap
split(s, sep) == splitFrom(s, sep, 1, 1)

RECURSIVE hardSliceFrom(_, _, _)
\* for (let i = 0; i < text.length; i += maxChars) chunks.push(text.slice(i, i + maxChars))
hardSliceFrom(s, maxC, at) ==
    IF at < Len(s)
    THEN << slice(s, at, at + maxC) >> \o hardSliceFrom(s, maxC, at + maxC)
    ELSE << >>

hardSlice_wide(s, maxC) == hardSliceFrom(s, maxC + 1, 0)

\* the hard character split (maxC >= 1: with maxC <= 0 the loop never ends)
hardSlice(s, maxC) == hardSliceFrom(s, maxC, 0)

\* if (current) chunks.push(current): the empty string is falsy
pushIfCurrent(cs, current) == IF current # << >> THEN Append(cs, current) ELSE cs

RECURSIVE mergeParts(_, _, _, _, _, _)
mergeParts_eachPart(parts, k, sep, maxC, current, cs) ==
    LET kept(part) == part # << >> IN SelectSeq(parts, kept)

\* the merge loop over parts[k..], with the chunks pushed so far and `current`
mergeParts(parts, k, sep, maxC, current, cs) ==
    IF k > Len(parts)
    THEN pushIfCurrent(cs, current)
    ELSE LET part == parts[k]
             candidate == IF current # << >> THEN current \o sep \o part ELSE part
         IN  IF Len(candidate) <= maxC
             THEN mergeParts(parts, k + 1, sep, maxC, candidate, cs)
             ELSE mergeParts(parts, k + 1, sep, maxC, part, pushIfCurrent(cs, current))

RECURSIVE _splitRecursive(_, _, _)
RECURSIVE flatMapSplit(_, _, _, _)
flatMapSplit_kept(cs, k, maxC, sepIdx) == cs

\* chunks.flatMap(chunk => chunk.length > maxChars ? _splitRecursive(chunk, maxChars, sepIdx + 1) : [chunk])
flatMapSplit(cs, k, maxC, sepIdx) ==
    IF k > Len(cs)
    THEN << >>
    ELSE (IF Len(cs[k]) > maxC THEN _splitRecursive(cs[k], maxC, sepIdx + 1) ELSE << cs[k] >>)
             \o flatMapSplit(cs, k + 1, maxC, sepIdx)

\* sepIdx counts from 0, as in the source
_splitRecursive(s, maxC, sepIdx) ==
    IF Len(s) <= maxC
    THEN << s >>
    ELSE IF sepIdx >= Len(SEPARATORS)
         THEN hardSlice(s, maxC)
         ELSE LET sep == SEPARATORS[sepIdx + 1]
                  parts == split(s, sep)
              IN  IF Len(parts) <= 1
                  THEN _splitRecursive(s, maxC, sepIdx + 1)
                  ELSE flatMapSplit(mergeParts(parts, 1, sep, maxC, << >>, << >>),
                                    1, maxC, sepIdx)

splitText(s, maxC) == IF Len(s) <= maxC THEN << s >> ELSE _splitRecursive(s, maxC, 0)

RECURSIVE splitReturns(_, _, _)
\* whether the invocation _splitRecursive(s, maxC, sepIdx) returns: the hard
\* split's loop `for (let i = 0; i < text.length; i += maxChars)` is entered by
\* a text that is not empty and never leaves it when maxChars <= 0
splitReturns(s, maxC, sepIdx) ==
    IF Len(s) <= maxC
    THEN TRUE
    ELSE IF sepIdx >= Len(SEPARATORS)
         THEN maxC >= 1 \/ Len(s) = 0
         ELSE LET sep == SEPARATORS[sepIdx + 1]
                  parts == split(s, sep)
                  merged == mergeParts(parts, 1, sep, maxC, << >>, << >>)
              IN  IF Len(parts) <= 1
                  THEN splitReturns(s, maxC, sepIdx + 1)
                  ELSE \A k \in 1..Len(merged) :
                           Len(merged[k]) > maxC => splitReturns(merged[k], maxC, sepIdx + 1)

(***************************************************************************)
(* Errors. A message is a text; the classifiers of openai-agents.js search *)
(* it for their patterns, ignoring case.                                   *)
(***************************************************************************)
\* new DOMException('Cancelled', 'AbortError')
\* 'Cancelled'
MsgCancelled ==
    << "C", "a", "n", "c", "e", "l", "l", "e", "d" >>

\* _streamChunk's timeoutMessage
\* 'Request timed out. Server may be overloaded or the model is too slow.'
MsgChunkTimeout ==
    << "R", "e", "q", "u", "e", "s", "t", " ", "t", "i", "m", "e", "d", " ", "o", "u", "t",
       ".", " ", "S", "e", "r", "v", "e", "r", " ", "m", "a", "y", " ", "b", "e", " ", "o",
       "v", "e", "r", "l", "o", "a", "d", "e", "d", " ", "o", "r", " ", "t", "h", "e", " ",
       "m", "o", "d", "e", "l", " ", "i", "s", " ", "t", "o", "o", " ", "s", "l", "o", "w",
       "." >>

\* 'Cancelled (tab closed or reloaded).'
MsgFmtCancelled ==
    << "C", "a", "n", "c", "e", "l", "l", "e", "d", " ", "(", "t", "a", "b", " ", "c", "l",
       "o", "s", "e", "d", " ", "o", "r", " ", "r", "e", "l", "o", "a", "d", "e", "d", ")",
       "." >>

\* 'Request timed out. Try increasing timeout or reducing context length.'
MsgFmtTimeout ==
    << "R", "e", "q", "u", "e", "s", "t", " ", "t", "i", "m", "e", "d", " ", "o", "u", "t",
       ".", " ", "T", "r", "y", " ", "i", "n", "c", "r", "e", "a", "s", "i", "n", "g", " ",
       "t", "i", "m", "e", "o", "u", "t", " ", "o", "r", " ", "r", "e", "d", "u", "c", "i",
       "n", "g", " ", "c", "o", "n", "t", "e", "x", "t", " ", "l", "e", "n", "g", "t", "h",
       "." >>

\* 'Context size exceeded. Reduce "Context length" in settings or shorten the prompt.'
MsgFmtContext ==
    << "C", "o", "n", "t", "e", "x", "t", " ", "s", "i", "z", "e", " ", "e", "x", "c", "e",
       "e", "d", "e", "d", ".", " ", "R", "e", "d", "u", "c", "e", " ", "\"", "C", "o", "n",
       "t", "e", "x", "t", " ", "l", "e", "n", "g", "t", "h", "\"", " ", "i", "n", " ", "s",
       "e", "t", "t", "i", "n", "g", "s", " ", "o", "r", " ", "s", "h", "o", "r", "t", "e",
       "n", " ", "t", "h", "e", " ", "p", "r", "o", "m", "p", "t", "." >>

\* 'Network error. Check API URL and that the server is running.'
MsgFmtNetwork ==
    << "N", "e", "t", "w", "o", "r", "k", " ", "e", "r", "r", "o", "r", ".", " ", "C", "h",
       "e", "c", "k", " ", "A", "P", "I", " ", "U", "R", "L", " ", "a", "n", "d", " ", "t",
       "h", "a", "t", " ", "t", "h", "e", " ", "s", "e", "r", "v", "e", "r", " ", "i", "s",
       " ", "r", "u", "n", "n", "i", "n", "g", "." >>

\* a backend rejecting its input as too large
\* 'context length exceeded'
MsgBackendOverflow ==
    << "c", "o", "n", "t", "e", "x", "t", " ", "l", "e", "n", "g", "t", "h", " ", "e", "x",
       "c", "e", "e", "d", "e", "d" >>

\* a transport failure of fetch
\* 'Failed to fetch'
MsgBackendNetwork ==
    << "F", "a", "i", "l", "e", "d", " ", "t", "o", " ", "f", "e", "t", "c", "h" >>

ContextPatterns ==
    { << "c", "o", "n", "t", "e", "x", "t", " ", "s", "i", "z", "e" >>,
      << "c", "o", "n", "t", "e", "x", "t", " ", "l", "e", "n", "g", "t", "h" >>,
      << "c", "o", "n", "t", "e", "x", "t", " ", "w", "i", "n", "d", "o", "w" >>,
      << "n", "_", "c", "t", "x" >>,
      << "e", "x", "c", "e", "e", "d", "e", "d" >>,
      << "t", "o", "o", " ", "m", "a", "n", "y", " ", "t", "o", "k", "e", "n", "s" >>,
      << "i", "n", "p", "u", "t", " ", "t", "o", "o", " ", "l", "o", "n", "g" >>,
      << "m", "a", "x", "i", "m", "u", "m", " ", "c", "o", "n", "t", "e", "x", "t" >> }

TimeoutPatterns ==
    { << "t", "i", "m", "e", "o", "u", "t" >>,
      << "t", "i", "m", "e", "d", " ", "o", "u", "t" >>,
      << "e", "t", "i", "m", "e", "d", "o", "u", "t" >>,
      << "a", "b", "o", "r", "t" >> }

NetworkPatterns ==
    { << "f", "e", "t", "c", "h" >>,
      << "n", "e", "t", "w", "o", "r", "k" >>,
      << "f", "a", "i", "l", "e", "d", " ", "t", "o", " ", "f", "e", "t", "c", "h" >>,
      << "c", "o", "n", "n", "e", "c", "t", "i", "o", "n" >>,
      << "e", "c", "o", "n", "n", "r", "e", "f", "u", "s", "e", "d" >>,
      << "e", "c", "o", "n", "n", "r", "e", "s", "e", "t" >> }

UpperToLower ==
    "A" :> "a" @@ "B" :> "b" @@ "C" :> "c" @@ "D" :> "d" @@ "E" :> "e" @@ "F" :> "f" @@ "G" :> "g" @@
    "H" :> "h" @@ "I" :> "i" @@ "J" :> "j" @@ "K" :> "k" @@ "L" :> "l" @@ "M" :> "m" @@ "N" :> "n" @@
    "O" :> "o" @@ "P" :> "p" @@ "Q" :> "q" @@ "R" :> "r" @@ "S" :> "s" @@ "T" :> "t" @@ "U" :> "u" @@
    "V" :> "v" @@ "W" :> "w" @@ "X" :> "x" @@ "Y" :> "y" @@ "Z" :> "z"

\* String.prototype.toLowerCase on one character (the regexes carry the i flag)
lower(c) == IF c \in DOMAIN UpperToLower THEN UpperToLower[c] ELSE c

lowerText(s) == [k \in 1..Len(s) |-> lower(s[k])]

\* whether one of the patterns occurs in the message, ignoring case
testAny(patterns, message) ==
    LET m == lowerText(message)
    IN  \E p \in patterns : \E k \in 1..Len(m) : occursAt(m, p, k)

Err(name, message) == [name |-> name, message |-> message]

AbortErr_overflow == Err("AbortError", MsgBackendOverflow)

\* new DOMException('Cancelled', 'AbortError')
AbortErr == Err("AbortError", MsgCancelled)

\* RangeError: Maximum call stack size exceeded (the engine's error when a
\* recursion that never awaits fills the call stack)
StackErr ==
    Err("RangeError",
        << "M", "a", "x", "i", "m", "u", "m", " ", "c", "a", "l", "l", " ", "s", "t", "a",
           "c", "k", " ", "s", "i", "z", "e", " ", "e", "x", "c", "e", "e", "d", "e", "d" >>)

\* RangeError: Invalid array length (the engine's error when chunks.push cannot
\* make the array any longer)
ArrayErr ==
    Err("RangeError",
        << "I", "n", "v", "a", "l", "i", "d", " ", "a", "r", "r", "a", "y", " ", "l", "e",
           "n", "g", "t", "h" >>)

TimeoutErr_overflow == Err("Error", MsgBackendOverflow)

\* withTimeout's new Error(timeoutMessage)
TimeoutErr == Err("Error", MsgChunkTimeout)

\* what a backend may fail with
BackendErrors == { Err("Error", MsgBackendOverflow), Err("Error", MsgBackendNetwork) }

isContextError(err) == testAny(ContextPatterns, err.message)

formatErrorMessage_raw(err) == err.message

formatErrorMessage(err) ==
    IF err.name = "AbortError" THEN MsgFmtCancelled
    ELSE IF testAny(TimeoutPatterns, err.message) THEN MsgFmtTimeout
    ELSE IF isContextError(err) THEN MsgFmtContext
    ELSE IF testAny(NetworkPatterns, err.message) THEN MsgFmtNetwork
    ELSE err.message

\* the errors a call can meet, each with its classification and its normalized
\* message (tables of the two functions above, evaluated once)
CallErrors == BackendErrors \cup {AbortErr, TimeoutErr}

contextErrors == {e \in CallErrors : isContextError(e)}

formatted == [e \in CallErrors |-> formatErrorMessage(e)]

(***************************************************************************)
(* OpenAIAgentsProvider.call (openai-agents.js).                           *)
(*                                                                         *)
(* A step of the model is one task of the event loop: the event (a backend *)
(* answer, the abort event, the chunk timer) together with everything the  *)
(* code runs before it next waits. The tops of the two for loops are       *)
(* positions of their own, so that the signal can fire between two chunks. *)
(*                                                                         *)
(* The backend's j-th fragment for submission s is the one-token text      *)
(* <<[sub |-> s, k |-> j]>>: all fragments differ, so a lost, repeated or  *)
(* reordered delta shows.                                                  *)
(***************************************************************************)
MAX_RETRY_DEPTH_three == 2 + 1

MAX_RETRY_DEPTH == 2

NoOutcome == [kind |-> "none", content |-> << >>, name |-> "", message |-> << >>]

Resolved(content) == [kind |-> "content", content |-> content, name |-> "", message |-> << >>]

Rejected(err) == [kind |-> "error", content |-> << >>, name |-> err.name, message |-> err.message]

NoErr == Err("", << >>)

\* the stream of a run before its reader reads: the fragments queued, whether the
\* backend closed it or errored it, and how many fragments the backend produced
EmptyStream == [queue |-> << >>, status |-> "open", err |-> NoErr, n |-> 0]

NeverAborted == [pc |-> "never", i |-> 0, nSub |-> 0, nEmit |-> 0]

\* one invocation of _processChunkWithRetry: streaming its chunk, or (retrying)
\* looping over the sub-chunks of its catch block
Frame(chunk, retryDepth) ==
    [chunk |-> chunk, retryDepth |-> retryDepth, retrying |-> FALSE,
     subChunks |-> << >>, k |-> 0, fullText |-> << >>]

Top == stack[Len(stack)]

CurrentSub == Len(submitted)

markSettled(how) == [settled EXCEPT ![Len(settled)] = how]

\* call's catch block: an AbortError is rethrown, anything else becomes
\* new Error(formatErrorMessage(err))
CallRejects(err) ==
    /\ pc' = "rejected"
    /\ stack' = << >>
    /\ outcome' = IF err.name = "AbortError"
                  THEN Rejected(err)
                  ELSE Rejected(Err("Error", formatted[err]))
    /\ UNCHANGED <<i, fullText>>

\* the innermost invocation of _processChunkWithRetry returns v: to the invocation
\* that awaits it (fullText += subText) or to call's loop (fullText += chunkText)
FrameReturns(v) ==
    IF Len(stack) = 1
    THEN /\ fullText' = fullText \o v
         /\ i' = i + 1
         /\ stack' = << >>
         /\ pc' = "loop"
         /\ UNCHANGED outcome
    ELSE /\ stack' = [SubSeq(stack, 1, Len(stack) - 1) EXCEPT
                         ![Len(stack) - 1].fullText = @ \o v,
                         ![Len(stack) - 1].k = @ + 1]
         /\ pc' = "subloop"
         /\ UNCHANGED <<i, fullText, outcome>>

AttemptThrows_deeper(err) ==
    IF err \in contextErrors /\ Top.retryDepth <= MAX_RETRY_DEPTH
    THEN /\ stack' = [stack EXCEPT ![Len(stack)] =
                         [Top EXCEPT !.retrying = TRUE,
                                     !.subChunks = splitText(Top.chunk, maxChunkChars \div 2),
                                     !.k = 0,
                                     !.fullText = << >>]]
         /\ pc' = "subloop"
         /\ UNCHANGED <<i, fullText, outcome>>
    ELSE CallRejects(err)

\* the catch block of _processChunkWithRetry: re-split on a context error below
\* MAX_RETRY_DEPTH, rethrow otherwise (through the awaiting invocations, which
\* await inside their catch blocks, to call's catch)
AttemptThrows(err) ==
    IF err \in contextErrors /\ Top.retryDepth < MAX_RETRY_DEPTH
    THEN /\ stack' = [stack EXCEPT ![Len(stack)] =
                         [Top EXCEPT !.retrying = TRUE,
                                     !.subChunks = splitText(Top.chunk, maxChunkChars \div 2),
                                     !.k = 0,
                                     !.fullText = << >>]]
         /\ pc' = "subloop"
         /\ UNCHANGED <<i, fullText, outcome>>
    ELSE CallRejects(err)

\* this._streamChunk(chunk, ...): runner.run(agent, chunk, { stream: true })
StartAttempt(chunk, retryDepth) ==
    /\ stack' = Append(stack, Frame(chunk, retryDepth))
    /\ submitted' = Append(submitted,
           [top |-> i + 1, depth |-> retryDepth, chunk |-> chunk,
            after |-> IF settled = << >> THEN "none" ELSE settled[Len(settled)]])
    /\ settled' = Append(settled, "inflight")
    /\ inFlight' = inFlight \cup {CurrentSub + 1}
    /\ inner' = "run"
    /\ stream' = EmptyStream
    /\ chunkText' = << >>
    /\ pc' = "await"
    /\ UNCHANGED <<i, fullText, outcome, emitted>>

\* the inner async function of _streamChunk ends; call goes on only if it still
\* awaits it (the chunk timer may have rejected the race before)
InnerReturns(ct) ==
    /\ inner' = "none"
    /\ stream' = EmptyStream
    /\ chunkText' = << >>
    /\ inFlight' = inFlight \ {CurrentSub}
    /\ IF pc = "await"
       THEN settled' = markSettled("ok") /\ FrameReturns(ct)
       ELSE UNCHANGED <<settled, pc, i, fullText, stack, outcome>>

InnerThrows(err) ==
    /\ inner' = "none"
    /\ stream' = EmptyStream
    /\ chunkText' = << >>
    /\ inFlight' = inFlight \ {CurrentSub}
    /\ IF pc = "await"
       THEN /\ settled' = markSettled(IF err.name = "AbortError" THEN "aborted"
                                      ELSE IF err \in contextErrors THEN "overflow"
                                      ELSE "error")
            /\ AttemptThrows(err)
       ELSE UNCHANGED <<settled, pc, i, fullText, stack, outcome>>

summVars == <<_summarizer, session, summaries, rounds, availability, released>>

budgetVars == <<contextLength, detected, promptLength>>

tabVars == <<sessions, tabAbortControllers, keepalivePending, ports, modal, url>>

inputVars == <<mode, text, maxChars, maxChunkChars, streamLen, summVars, budgetVars, thrown, pending,
              tabVars>>

\* the context length is settled (explicit, detected or the fallback) and the text
\* is split: const chunks = splitText(text, maxChunkChars)
Detect ==
    /\ mode = "call" /\ pc = "detect"
    /\ chunks' = splitText(text, maxChunkChars)
    /\ pc' = "loop"
    /\ UNCHANGED <<inputVars, aborted, i, fullText, stack, inner, stream, chunkText,
                   outcome, submitted, settled, emitted, inFlight, abortAt>>

\* the loop of call is over: return { content: fullText }
CallReturn ==
    /\ mode = "call" /\ pc = "loop"
    /\ i >= Len(chunks)
    /\ pc' = "resolved"
    /\ outcome' = Resolved(fullText)
    /\ UNCHANGED <<inputVars, chunks, aborted, i, fullText, stack, inner, stream,
                   chunkText, submitted, settled, emitted, inFlight, abortAt>>

\* if (signal?.aborted) throw new DOMException("Cancelled", "AbortError")
LoopAbort ==
    /\ mode = "call" /\ pc = "loop"
    /\ i < Len(chunks)
    /\ aborted
    /\ CallRejects(AbortErr)
    /\ UNCHANGED <<inputVars, chunks, aborted, inner, stream, chunkText,
                   submitted, settled, emitted, inFlight, abortAt>>

LoopSubmit_unchecked ==
    /\ mode = "call" /\ pc = "loop"
    /\ i < Len(chunks)
    /\ StartAttempt(chunks[i + 1], 0)
    /\ UNCHANGED <<inputVars, chunks, aborted, abortAt>>

\* await this._processChunkWithRetry(chunks[i], maxChunkChars, ...)
LoopSubmit ==
    /\ mode = "call" /\ pc = "loop"
    /\ i < Len(chunks)
    /\ ~aborted
    /\ StartAttempt(chunks[i + 1], 0)
    /\ UNCHANGED <<inputVars, chunks, aborted, abortAt>>

\* the loop over subChunks is over: return fullText
SubLoopReturn ==
    /\ mode = "call" /\ pc = "subloop"
    /\ Top.k >= Len(Top.subChunks)
    /\ FrameReturns(Top.fullText)
    /\ UNCHANGED <<inputVars, chunks, aborted, inner, stream, chunkText,
                   submitted, settled, emitted, inFlight, abortAt>>

SubLoopAbort_normalized ==
    /\ mode = "call" /\ pc = "subloop"
    /\ Top.k < Len(Top.subChunks)
    /\ aborted
    /\ pc' = "rejected"
    /\ stack' = << >>
    /\ outcome' = Rejected(Err("Error", MsgFmtCancelled))
    /\ UNCHANGED <<i, fullText>>
    /\ UNCHANGED <<inputVars, chunks, aborted, inner, stream, chunkText,
                   submitted, settled, emitted, inFlight, abortAt>>

\* if (signal?.aborted) throw new DOMException('Cancelled', 'AbortError'), at the
\* top of the loop over the sub-chunks
SubLoopAbort ==
    /\ mode = "call" /\ pc = "subloop"
    /\ Top.k < Len(Top.subChunks)
    /\ aborted
    /\ CallRejects(AbortErr)
    /\ UNCHANGED <<inputVars, chunks, aborted, inner, stream, chunkText,
                   submitted, settled, emitted, inFlight, abortAt>>

SubLoopSubmit_sameDepth ==
    /\ mode = "call" /\ pc = "subloop"
    /\ Top.k < Len(Top.subChunks)
    /\ ~aborted
    /\ StartAttempt(Top.subChunks[Top.k + 1], Top.retryDepth)
    /\ UNCHANGED <<inputVars, chunks, aborted, abortAt>>

\* await this._processChunkWithRetry(subChunk, maxChunkChars, ..., retryDepth + 1)
SubLoopSubmit ==
    /\ mode = "call" /\ pc = "subloop"
    /\ Top.k < Len(Top.subChunks)
    /\ ~aborted
    /\ StartAttempt(Top.subChunks[Top.k + 1], Top.retryDepth + 1)
    /\ UNCHANGED <<inputVars, chunks, aborted, abortAt>>

(***************************************************************************)
(* _streamChunk's inner async function and the backend it talks to.        *)
(* It goes on after the chunk timer has rejected the race (pc # "await"):  *)
(* nothing stops it.                                                       *)
(***************************************************************************)
RECURSIVE concat(_)
\* the texts of a sequence, joined with nothing between them
concat(ts) == IF ts = << >> THEN << >> ELSE Head(ts) \o concat(Tail(ts))

onUpdate_prepend(log, delta) == << delta >> \o log

\* if (onUpdate) onUpdate(readResult.value), with a callback that records its calls
onUpdate(log, delta) == Append(log, delta)

RECURSIVE onUpdateAll(_, _)
\* one onUpdate call per fragment read, in the order read
onUpdateAll(log, deltas) ==
    IF deltas = << >> THEN log ELSE onUpdateAll(onUpdate(log, Head(deltas)), Tail(deltas))

\* the backend produces the next fragment of the run's text stream: into the
\* stream's queue while runner.run is awaited, to the pending read otherwise
\* (chunkText += readResult.value; onUpdate(readResult.value); read again)
BackendYield ==
    /\ mode = "call" /\ inner \in {"run", "read"}
    /\ stream.status = "open"
    /\ stream.n < streamLen
    /\ LET frag == << [sub |-> CurrentSub, k |-> stream.n + 1] >>
       IN  IF inner = "run"
           THEN /\ stream' = [stream EXCEPT !.queue = Append(@, frag), !.n = @ + 1]
                /\ UNCHANGED <<chunkText, emitted>>
           ELSE /\ stream' = [stream EXCEPT !.n = @ + 1]
                /\ chunkText' = chunkText \o frag
                /\ emitted' = onUpdate(emitted, frag)
    /\ UNCHANGED <<inputVars, chunks, aborted, pc, i, fullText, stack, inner, outcome,
                   submitted, settled, inFlight, abortAt>>

\* the backend ends the text stream after its streamLen fragments: the pending
\* read gives done, the loop breaks and result.completed is awaited
BackendClose ==
    /\ mode = "call" /\ inner \in {"run", "read"}
    /\ stream.status = "open"
    /\ stream.n = streamLen
    /\ IF inner = "run"
       THEN stream' = [stream EXCEPT !.status = "closed"] /\ UNCHANGED inner
       ELSE inner' = "completed" /\ UNCHANGED stream
    /\ UNCHANGED <<inputVars, chunks, aborted, pc, i, fullText, stack, chunkText, outcome,
                   submitted, settled, emitted, inFlight, abortAt>>

\* the backend errors the text stream (an errored stream drops its queue): the
\* pending read rejects, the catch cancels the reader and rethrows
BackendError ==
    /\ mode = "call" /\ inner \in {"run", "read"}
    /\ stream.status = "open"
    /\ \E e \in BackendErrors :
           IF inner = "run"
           THEN /\ stream' = [stream EXCEPT !.status = "errored", !.err = e, !.queue = << >>]
                /\ UNCHANGED <<inner, chunkText, inFlight, settled, pc, i, fullText, stack,
                               outcome>>
           ELSE InnerThrows(e)
    /\ UNCHANGED <<inputVars, chunks, aborted, submitted, emitted, abortAt>>

\* await runner.run(...) resolves; the reader reads whatever the stream holds.
\* Promise.race([reader.read(), <abort>]) settles as its first settled entry: a
\* read that the stream can answer at once wins even over a fired signal.
RunResolve ==
    /\ mode = "call" /\ inner = "run"
    /\ emitted' = onUpdateAll(emitted, stream.queue)
    /\ IF stream.status = "errored"
       THEN InnerThrows(stream.err)
       ELSE IF stream.status = "open" /\ aborted
       THEN InnerThrows(AbortErr)
       ELSE /\ inner' = IF stream.status = "closed" THEN "completed" ELSE "read"
            /\ chunkText' = chunkText \o concat(stream.queue)
            /\ stream' = [stream EXCEPT !.queue = << >>]
            /\ UNCHANGED <<inFlight, settled, pc, i, fullText, stack, outcome>>
    /\ UNCHANGED <<inputVars, chunks, aborted, submitted, abortAt>>

\* await runner.run(...) rejects: the backend refuses the submission
RunReject ==
    /\ mode = "call" /\ inner = "run"
    /\ stream = EmptyStream
    /\ \E e \in BackendErrors : InnerThrows(e)
    /\ UNCHANGED <<inputVars, chunks, aborted, submitted, emitted, abortAt>>

\* await result.completed resolves: return chunkText
CompletedResolve ==
    /\ mode = "call" /\ inner = "completed"
    /\ InnerReturns(chunkText)
    /\ UNCHANGED <<inputVars, chunks, aborted, submitted, emitted, abortAt>>

\* await result.completed rejects: the run failed after its text was streamed
CompletedReject ==
    /\ mode = "call" /\ inner = "completed"
    /\ \E e \in BackendErrors : InnerThrows(e)
    /\ UNCHANGED <<inputVars, chunks, aborted, submitted, emitted, abortAt>>

\* the cancellation signal fires (AbortController.abort()) while the call is
\* pending (sanitizeTab drops the controller when the call has settled); a
\* pending raceReadWithSignal rejects with the AbortError at once. abortAt keeps
\* the place: a loop top with the counts there, or the inner function's position.
Abort ==
    /\ mode = "call"
    /\ ~aborted
    /\ pc \notin {"resolved", "rejected"}
    /\ aborted' = TRUE
    /\ abortAt' = IF pc = "await"
                  THEN [pc |-> inner, i |-> 0, nSub |-> 0, nEmit |-> 0]
                  ELSE [pc |-> pc, i |-> i, nSub |-> Len(submitted), nEmit |-> Len(emitted)]
    /\ IF inner = "read"
       THEN InnerThrows(AbortErr)
       ELSE UNCHANGED <<inner, stream, chunkText, inFlight, settled, pc, i, fullText,
                        stack, outcome>>
    /\ UNCHANGED <<inputVars, chunks, submitted, emitted>>

\* withTimeout's timer fires before the inner async function has settled
Timeout ==
    /\ mode = "call" /\ pc = "await"
    /\ settled' = markSettled("timeout")
    /\ AttemptThrows(TimeoutErr)
    /\ UNCHANGED <<inputVars, chunks, aborted, inner, stream, chunkText, submitted,
                   emitted, inFlight, abortAt>>

(***************************************************************************)
(* ChromeSummarizerProvider (src/providers/chrome-summarizer.js) and the   *)
(* browser's Summarizer API behind it. One call runs; a step is one task   *)
(* of the service worker: a backend promise settles and the call runs on   *)
(* to its next await. `session` is the browser's side of the summarizer    *)
(* that Summarizer.create makes, `_summarizer` the provider's field. The   *)
(* backend's summaries are texts of at most MaxSummaryLen characters "s";  *)
(* the streamed summary arrives one character per fragment. `submitted`    *)
(* records the generation requests, `emitted` the onUpdate calls.          *)
(***************************************************************************)
\* export const CHARS_PER_TOKEN = 3;
CHARS_PER_TOKEN == 3

\* const DEFAULT_TOKEN_QUOTA = 4000;
DEFAULT_TOKEN_QUOTA == 4000

\* checkAvailability's reason when 'Summarizer' is not in self
ReasonNoApi ==
    << "S", "u", "m", "m", "a", "r", "i", "z", "e", "r", " ", "A", "P", "I", " ", "i",
       "s", " ", "n", "o", "t", " ", "a", "v", "a", "i", "l", "a", "b", "l", "e", ".",
       " ", "R", "e", "q", "u", "i", "r", "e", "s", " ", "C", "h", "r", "o", "m", "e",
       " ", "1", "3", "8", "+", " ", "w", "i", "t", "h", " ", "t", "h", "e", " ", "r",
       "e", "q", "u", "i", "r", "e", "d", " ", "f", "l", "a", "g", "s", " ", "o", "r",
       " ", "a", "n", " ", "a", "c", "t", "i", "v", "e", " ", "o", "r", "i", "g", "i",
       "n", " ", "t", "r", "i", "a", "l", " ", "t", "o", "k", "e", "n", "." >>

\* checkAvailability's reason when Summarizer.availability() is 'unavailable'
ReasonNoModel ==
    << "S", "u", "m", "m", "a", "r", "i", "z", "e", "r", " ", "m", "o", "d", "e", "l",
       " ", "i", "s", " ", "u", "n", "a", "v", "a", "i", "l", "a", "b", "l", "e", " ",
       "o", "n", " ", "t", "h", "i", "s", " ", "d", "e", "v", "i", "c", "e", ".", " ",
       "C", "h", "e", "c", "k", " ", "h", "a", "r", "d", "w", "a", "r", "e", " ", "r",
       "e", "q", "u", "i", "r", "e", "m", "e", "n", "t", "s", " ", "a", "t", " ", "c",
       "h", "r", "o", "m", "e", ":", "/", "/", "f", "l", "a", "g", "s", "." >>

\* what Summarizer.availability() may report, and "absent": no Summarizer in self
Availabilities == {"absent", "unavailable", "downloadable", "available"}

checkAvailability_optimistic(reported) == [available |-> TRUE, reason |-> << >>]

\* static async checkAvailability()
checkAvailability(reported) ==
    IF reported = "absent" THEN [available |-> FALSE, reason |-> ReasonNoApi]
    ELSE IF reported = "unavailable" THEN [available |-> FALSE, reason |-> ReasonNoModel]
    ELSE [available |-> TRUE, reason |-> << >>]

\* the texts handed to ChromeSummarizerProvider.call
SummTexts == UNION {[1..k -> CallChars] : k \in 0..MaxSummLen}

\* what summarize may return
Summaries == {[k \in 1..n |-> "s"] : n \in 0..MaxSummaryLen}

\* the values of settings.contextLength (the options page stores
\* parseInt(value, 10) || undefined: any integer but 0) and of the summarizer's
\* inputQuota; 0 stands for a value that is not there
SummQuotas == -1..MaxSummQuota

\* this.settings.contextLength || this._summarizer.inputQuota || DEFAULT_TOKEN_QUOTA
\* (0 stands for a setting or a quota that is not there: both are falsy)
tokenQuota(setting, inputQuota) ==
    IF setting # 0 THEN setting
    ELSE IF inputQuota # 0 THEN inputQuota
    ELSE DEFAULT_TOKEN_QUOTA

RECURSIVE join(_)
\* summaries.join('\n')
join(ts) ==
    IF ts = << >> THEN << >>
    ELSE IF Len(ts) = 1 THEN ts[1]
    ELSE ts[1] \o <<NL>> \o join(Tail(ts))

RECURSIVE _recursiveSummarize(_, _, _)
\* _recursiveSummarize up to its first await, r invocations having gone before:
\* it returns the combined text, or starts the loop over the chunks of the
\* combined text (a combined text that splits into no chunk gives an empty
\* `reduced` and the next invocation at once; under a negative maxChars that
\* invocation is in the same case again, and the recursion, which awaits
\* nothing, goes on until the call stack is full: "overflow", after a number
\* of invocations that is the engine's)
_recursiveSummarize(acc, mc, r) ==
    LET combined == join(acc)
    IN  IF Len(combined) <= mc
        THEN [kind |-> "return", combined |-> combined, chunks |-> << >>, rounds |-> r + 1]
        ELSE LET cs == splitText(combined, mc)
             IN  IF cs = << >>
                 THEN IF mc < 0
                      THEN [kind |-> "overflow"]
                      ELSE _recursiveSummarize(<< >>, mc, r + 1)
                 ELSE [kind |-> "loop", combined |-> << >>, chunks |-> cs, rounds |-> r + 1]

\* what ChromeSummarizerProvider.call never touches
summFixed == <<mode, text, maxChunkChars, streamLen, availability, released, stack, inner,
               stream, chunkText, settled, inFlight, budgetVars, thrown, pending, sessions, tabAbortControllers,
               keepalivePending, ports, modal, url>>

\* the call goes on to its next await: a generation request is made
SummGoto(p, cs, at, acc, r, request) ==
    /\ pc' = p
    /\ chunks' = cs
    /\ i' = at
    /\ summaries' = acc
    /\ rounds' = r
    /\ submitted' = Append(submitted, request)
    /\ UNCHANGED outcome

\* how many invocations of _recursiveSummarize the call stack holds before the
\* engine throws: a number of the engine and of the stack left at the moment,
\* different from run to run and bounded by nothing in the code, so that the
\* count is not a number of the model
StackDepth == "call stack size"

\* _recursiveSummarize has filled the call stack: the engine throws and the
\* call rejects, after StackDepth invocations
SummOverflows ==
    /\ pc' = "rejected"
    /\ outcome' = Rejected(StackErr)
    /\ chunks' = << >>
    /\ i' = 0
    /\ summaries' = << >>
    /\ rounds' = StackDepth
    /\ UNCHANGED submitted

\* the call throws err: it rejects with it as it is
SummRejects(err) ==
    /\ pc' = "rejected"
    /\ outcome' = Rejected(err)
    /\ chunks' = << >>
    /\ i' = 0
    /\ summaries' = << >>
    /\ UNCHANGED <<rounds, submitted>>

\* _streamSummary(t): const stream = this._summarizer.summarizeStreaming(t)
_streamSummary(t, r) ==
    SummGoto("stream", << >>, 0, << >>, r, [op |-> "summarizeStreaming", text |-> t])

\* a loop over cs has pushed acc so far: throwIfAborted and the next summarize,
\* or after the last chunk throwIfAborted, _recursiveSummarize (r invocations
\* have gone before), throwIfAborted and _streamSummary
SummLoop(cs, at, acc, mc, r) ==
    IF aborted
    THEN SummRejects(AbortErr)
    ELSE IF at < Len(cs)
    THEN SummGoto("summarize", cs, at, acc, r, [op |-> "summarize", text |-> cs[at + 1]])
    ELSE LET res == _recursiveSummarize(acc, mc, r)
         IN  IF res.kind = "overflow"
             THEN SummOverflows
             ELSE /\ res.rounds <= MaxRounds
                  /\ IF res.kind = "return"
                     THEN _streamSummary(res.combined, res.rounds)
                     ELSE SummGoto("summarize", res.chunks, 0, << >>, res.rounds,
                                   [op |-> "summarize", text |-> res.chunks[1]])

\* provider.call({...}) is invoked on the new provider: up to its first await,
\* const { available, reason } = await ChromeSummarizerProvider.checkAvailability()
call ==
    /\ mode = "summ" /\ pc = "new"
    /\ pc' = "checkAvailability"
    /\ UNCHANGED <<summFixed, maxChars, aborted, abortAt, fullText, emitted, submitted,
                   chunks, i, outcome, _summarizer, session, summaries, rounds>>

\* await ChromeSummarizerProvider.checkAvailability() returns:
\* if (!available) throw new Error(reason); else Summarizer.availability() is awaited
CheckAvailabilityReturns ==
    /\ mode = "summ" /\ pc = "checkAvailability"
    /\ LET r == checkAvailability(availability)
       IN  IF r.available
           THEN pc' = "availability" /\ UNCHANGED <<outcome, chunks, i, summaries>>
           ELSE SummRejects(Err("Error", r.reason))
    /\ UNCHANGED <<summFixed, maxChars, aborted, abortAt, fullText, emitted, submitted,
                   rounds, _summarizer, session>>

\* await Summarizer.availability() resolves: throwIfAborted(signal), then
\* Summarizer.create({...}) is called and raced with the signal
AvailabilityResolves ==
    /\ mode = "summ" /\ pc = "availability"
    /\ IF aborted
       THEN SummRejects(AbortErr) /\ UNCHANGED session
       ELSE /\ pc' = "create"
            /\ session' = "creating"
            /\ UNCHANGED <<outcome, chunks, i, summaries, rounds, submitted>>
    /\ UNCHANGED <<summFixed, maxChars, aborted, abortAt, fullText, emitted, _summarizer>>

\* Summarizer.create resolves with a summarizer. While the call awaits the race:
\* this._summarizer = it; throwIfAborted; the budget; splitText; one chunk is
\* streamed, several are summarized one by one. After the race was rejected by
\* the signal nothing takes the summarizer. A splitText whose hard split never
\* leaves its loop pushes slices, within this one task, until the engine gives
\* up: chunks.push throws RangeError (Invalid array length) and the call
\* rejects with it, or the heap is exhausted first and the process is aborted
\* ("splitting": nothing runs from then on).
CreateResolves ==
    /\ mode = "summ" /\ session = "creating"
    /\ session' = "live"
    /\ IF pc = "create"
       THEN /\ _summarizer' = "session"
            /\ \E setting \in SummQuotas, inputQuota \in SummQuotas :
                  LET mc == tokenQuota(setting, inputQuota) * CHARS_PER_TOKEN
                      cs == splitText(text, mc)
                  IN  /\ maxChars' = mc
                      /\ IF aborted
                         THEN SummRejects(AbortErr)
                         ELSE IF ~splitReturns(text, mc, 0)
                         THEN \/ SummRejects(ArrayErr)
                              \/ /\ pc' = "splitting"
                                 /\ UNCHANGED <<chunks, i, summaries, rounds, submitted,
                                                outcome>>
                         ELSE IF Len(cs) = 1
                         THEN _streamSummary(cs[1], 0)
                         ELSE SummLoop(cs, 0, << >>, mc, 0)
       ELSE UNCHANGED <<_summarizer, maxChars, pc, chunks, i, summaries, rounds, submitted,
                        outcome>>
    /\ UNCHANGED <<summFixed, aborted, abortAt, fullText, emitted>>

\* Summarizer.create rejects
CreateRejects ==
    /\ mode = "summ" /\ session = "creating"
    /\ session' = "none"
    /\ IF pc = "create"
       THEN \E e \in BackendErrors : SummRejects(e)
       ELSE UNCHANGED <<pc, chunks, i, summaries, rounds, submitted, outcome>>
    /\ UNCHANGED <<summFixed, maxChars, aborted, abortAt, fullText, emitted, _summarizer>>

\* this._summarizer.summarize(chunks[i]) resolves: summaries.push(summary) (or
\* reduced.push(summary)) and the loop goes on
SummarizeResolves ==
    /\ mode = "summ" /\ pc = "summarize"
    /\ \E summary \in Summaries :
          SummLoop(chunks, i + 1, Append(summaries, summary), maxChars, rounds)
    /\ UNCHANGED <<summFixed, maxChars, aborted, abortAt, fullText, emitted, _summarizer,
                   session>>

\* this._summarizer.summarize(chunks[i]) rejects
SummarizeRejects ==
    /\ mode = "summ" /\ pc = "summarize"
    /\ \E e \in BackendErrors : SummRejects(e)
    /\ UNCHANGED <<summFixed, maxChars, aborted, abortAt, fullText, emitted, _summarizer,
                   session>>

\* the stream gives its next fragment to `for await`:
\* throwIfAborted(signal); fullText += chunk; if (onUpdate) onUpdate(chunk)
StreamYields ==
    /\ mode = "summ" /\ pc = "stream"
    /\ Len(emitted) < streamLen
    /\ IF aborted
       THEN SummRejects(AbortErr) /\ UNCHANGED <<fullText, emitted>>
       ELSE /\ fullText' = fullText \o <<"s">>
            /\ emitted' = onUpdate(emitted, <<"s">>)
            /\ UNCHANGED <<pc, outcome, chunks, i, summaries, rounds, submitted>>
    /\ UNCHANGED <<summFixed, maxChars, aborted, abortAt, _summarizer, session>>

\* the stream ends after its streamLen fragments: return { content: fullText }
StreamEnds ==
    /\ mode = "summ" /\ pc = "stream"
    /\ Len(emitted) = streamLen
    /\ pc' = "resolved"
    /\ outcome' = Resolved(fullText)
    /\ UNCHANGED <<summFixed, maxChars, aborted, abortAt, fullText, emitted, chunks, i,
                   submitted, summVars>>

\* the stream fails: `for await` throws
StreamRejects ==
    /\ mode = "summ" /\ pc = "stream"
    /\ \E e \in BackendErrors : SummRejects(e)
    /\ UNCHANGED <<summFixed, maxChars, aborted, abortAt, fullText, emitted, _summarizer,
                   session>>

\* the cancellation signal fires while the call is pending: a pending
\* raceWithSignal (Summarizer.create, summarize) rejects with the AbortError at
\* once; the other awaits are not raced
SummAbort ==
    /\ mode = "summ"
    /\ ~aborted
    /\ pc \in {"checkAvailability", "availability", "create", "summarize", "stream"}
    /\ aborted' = TRUE
    /\ abortAt' = [pc |-> pc, i |-> i, nSub |-> Len(submitted), nEmit |-> Len(emitted)]
    /\ IF pc \in {"create", "summarize"}
       THEN SummRejects(AbortErr)
       ELSE UNCHANGED <<pc, outcome, chunks, i, summaries, rounds, submitted>>
    /\ UNCHANGED <<summFixed, maxChars, fullText, emitted, _summarizer, session>>

destroy_always ==
    /\ mode = "summ"
    /\ pc \in {"new", "resolved", "rejected", "ended"}
    /\ pc' = IF pc = "new" THEN "new" ELSE "ended"
    /\ released < 2
    /\ session' = "destroyed" /\ _summarizer' = "none" /\ released' = released + 1
    /\ UNCHANGED <<mode, text, maxChunkChars, streamLen, availability, stack, inner, stream,
                   chunkText, settled, inFlight, budgetVars, thrown, pending, tabVars, maxChars,
                   aborted, abortAt, fullText, emitted, chunks, i, submitted, summaries,
                   rounds, outcome>>

\* provider.destroy(), on a provider whose call has not started or has settled
\* (sanitizeTab's finally calls it once the call has settled; "ended" marks that):
\* if (this._summarizer) { this._summarizer.destroy(); this._summarizer = null; }
destroy ==
    /\ mode = "summ"
    /\ pc \in {"new", "resolved", "rejected", "ended"}
    /\ pc' = IF pc = "new" THEN "new" ELSE "ended"
    /\ IF _summarizer # "none"
       THEN session' = "destroyed" /\ _summarizer' = "none" /\ released' = released + 1
       ELSE UNCHANGED <<_summarizer, session, released>>
    /\ UNCHANGED <<mode, text, maxChunkChars, streamLen, availability, stack, inner, stream,
                   chunkText, settled, inFlight, budgetVars, thrown, pending, tabVars, maxChars,
                   aborted, abortAt, fullText, emitted, chunks, i, submitted, summaries,
                   rounds, outcome>>

(***************************************************************************)
(* OpenAIAgentsProvider.call: the chunk budget (openai-agents.js).         *)
(* Context sizes and prompt lengths are integers; 0 stands for a setting   *)
(* that is not there and for a detection that gave null (both are falsy).  *)
(***************************************************************************)
\* const RESPONSE_BUFFER_TOKENS = 1024;
RESPONSE_BUFFER_TOKENS == 1024

\* const MIN_CONTENT_TOKENS = 256;
MIN_CONTENT_TOKENS == 256

Max(a, b) == IF a >= b THEN a ELSE b

ctxOf_detectedFirst(setting, det) ==
    Max(512, IF det # 0 THEN det ELSE IF setting # 0 THEN setting ELSE 4096)

\* the priority chain: user setting > API auto-detection > default (4096),
\* then ctx = Math.max(512, ctx)
ctxOf(setting, det) ==
    Max(512, IF setting # 0 THEN setting ELSE IF det # 0 THEN det ELSE 4096)

promptTokensEst_floor(len) == len \div CHARS_PER_TOKEN

\* Math.ceil((prompt?.length ?? 0) / CHARS_PER_TOKEN)
promptTokensEst(len) == (len + CHARS_PER_TOKEN - 1) \div CHARS_PER_TOKEN

reserveTokens_max(ctx, est) == Max(ctx - MIN_CONTENT_TOKENS, est + RESPONSE_BUFFER_TOKENS)

\* Math.min(ctx - MIN_CONTENT_TOKENS, promptTokensEst + RESPONSE_BUFFER_TOKENS)
reserveTokens(ctx, est) == Min(ctx - MIN_CONTENT_TOKENS, est + RESPONSE_BUFFER_TOKENS)

\* Math.max(MIN_CONTENT_TOKENS, ctx - reserveTokens)
maxChunkTokens(ctx, est) == Max(MIN_CONTENT_TOKENS, ctx - reserveTokens(ctx, est))

\* the context sizes tried: around every multiple of MIN_CONTENT_TOKENS up to
\* MaxContextSteps of them, from -1 on
ContextLengths == {k * MIN_CONTENT_TOKENS + d : k \in 0..MaxContextSteps, d \in -1..1}

\* the prompt lengths tried: from every multiple of MIN_CONTENT_TOKENS tokens on,
\* the three lengths that differ in how the estimate rounds
PromptLengths ==
    {k * MIN_CONTENT_TOKENS * CHARS_PER_TOKEN + d : k \in 0..MaxPromptSteps, d \in 0..2}

\* no setting (this.settings.contextLength is falsy):
\* await this._detectContextLength(client, model) asks the backend; whatever
\* goes wrong there is caught and gives null
DetectContextLength ==
    /\ mode = "budget"
    /\ pc = "budget_input"
    /\ contextLength = 0
    /\ pc' = "detecting"
    /\ UNCHANGED <<mode, text, maxChars, chunks, maxChunkChars, streamLen, aborted, i, fullText,
                   stack, inner, stream, chunkText, outcome, submitted, settled, emitted,
                   inFlight, abortAt, summVars, budgetVars, thrown, pending, tabVars>>

\* const maxChunkChars = maxChunkTokens * CHARS_PER_TOKEN, once ctx is there:
\* at once with a setting, after the detection without one
ComputeBudget ==
    /\ mode = "budget"
    /\ \/ pc = "budget_input" /\ contextLength # 0
       \/ pc = "detecting"
    /\ maxChunkChars' = maxChunkTokens(ctxOf(contextLength, detected),
                                       promptTokensEst(promptLength)) * CHARS_PER_TOKEN
    /\ pc' = "budget_done"
    /\ UNCHANGED <<mode, text, maxChars, chunks, streamLen, aborted, i, fullText, stack, inner,
                   stream, chunkText, outcome, submitted, settled, emitted, inFlight, abortAt,
                   summVars, budgetVars, thrown, pending, tabVars>>

(***************************************************************************)
(* The catch block of OpenAIAgentsProvider.call on its own: what it makes  *)
(* of an error, by the error's origin. The catalogue holds, for each       *)
(* origin, messages as the timers of openai-agents.js, OpenAI-compatible   *)
(* backends and fetch word them.                                           *)
(***************************************************************************)
\* what the two timers reject with: withTimeout's timeoutMessage (CHUNK_TIMEOUT_MS) and
\* the client's request timer (timeout: REQUEST_TIMEOUT_MS):
\*   'Request timed out. Server may be overloaded or the model is too slow.'
\*   'Request timed out.'
TimerMessages ==
    { << "R", "e", "q", "u", "e", "s", "t", " ", "t", "i", "m", "e", "d", " ", "o", "u", "t",
         ".", " ", "S", "e", "r", "v", "e", "r", " ", "m", "a", "y", " ", "b", "e", " ", "o",
         "v", "e", "r", "l", "o", "a", "d", "e", "d", " ", "o", "r", " ", "t", "h", "e", " ",
         "m", "o", "d", "e", "l", " ", "i", "s", " ", "t", "o", "o", " ", "s", "l", "o", "w",
         "." >>,
      << "R", "e", "q", "u", "e", "s", "t", " ", "t", "i", "m", "e", "d", " ", "o", "u", "t",
         "." >> }

\* how backends reject an input as too large:
\*   'context length exceeded'
\*   "This model's maximum context length is 4097 tokens"
\*   'the request exceeds the available context size'
\*   'Too many tokens'
\*   'Input too long'
\*   'n_ctx is too small'
\*   'Context window is full'
OverflowMessages ==
    { << "c", "o", "n", "t", "e", "x", "t", " ", "l", "e", "n", "g", "t", "h", " ", "e", "x",
         "c", "e", "e", "d", "e", "d" >>,
      << "T", "h", "i", "s", " ", "m", "o", "d", "e", "l", "'", "s", " ", "m", "a", "x", "i",
         "m", "u", "m", " ", "c", "o", "n", "t", "e", "x", "t", " ", "l", "e", "n", "g", "t",
         "h", " ", "i", "s", " ", "4", "0", "9", "7", " ", "t", "o", "k", "e", "n", "s" >>,
      << "t", "h", "e", " ", "r", "e", "q", "u", "e", "s", "t", " ", "e", "x", "c", "e", "e",
         "d", "s", " ", "t", "h", "e", " ", "a", "v", "a", "i", "l", "a", "b", "l", "e", " ",
         "c", "o", "n", "t", "e", "x", "t", " ", "s", "i", "z", "e" >>,
      << "T", "o", "o", " ", "m", "a", "n", "y", " ", "t", "o", "k", "e", "n", "s" >>,
      << "I", "n", "p", "u", "t", " ", "t", "o", "o", " ", "l", "o", "n", "g" >>,
      << "n", "_", "c", "t", "x", " ", "i", "s", " ", "t", "o", "o", " ", "s", "m", "a", "l",
         "l" >>,
      << "C", "o", "n", "t", "e", "x", "t", " ", "w", "i", "n", "d", "o", "w", " ", "i", "s",
         " ", "f", "u", "l", "l" >> }

\* transport-level failures:
\*   'Failed to fetch'
\*   'NetworkError when attempting to fetch resource.'
\*   'Connection error.'
\*   'connect ECONNREFUSED'
\*   'read ECONNRESET'
\*   'connect ETIMEDOUT'
NetworkMessages ==
    { << "F", "a", "i", "l", "e", "d", " ", "t", "o", " ", "f", "e", "t", "c", "h" >>,
      << "N", "e", "t", "w", "o", "r", "k", "E", "r", "r", "o", "r", " ", "w", "h", "e", "n",
         " ", "a", "t", "t", "e", "m", "p", "t", "i", "n", "g", " ", "t", "o", " ", "f", "e",
         "t", "c", "h", " ", "r", "e", "s", "o", "u", "r", "c", "e", "." >>,
      << "C", "o", "n", "n", "e", "c", "t", "i", "o", "n", " ", "e", "r", "r", "o", "r", "." >>,
      << "c", "o", "n", "n", "e", "c", "t", " ", "E", "C", "O", "N", "N", "R", "E", "F", "U",
         "S", "E", "D" >>,
      << "r", "e", "a", "d", " ", "E", "C", "O", "N", "N", "R", "E", "S", "E", "T" >>,
      << "c", "o", "n", "n", "e", "c", "t", " ", "E", "T", "I", "M", "E", "D", "O", "U", "T" >> }

\* anything else a backend answers:
\*   'Rate limit exceeded'
\*   'Incorrect API key provided'
\*   'Internal server error'
\*   'model not found'
\*   ''
GenericMessages ==
    { << "R", "a", "t", "e", " ", "l", "i", "m", "i", "t", " ", "e", "x", "c", "e", "e", "d",
         "e", "d" >>,
      << "I", "n", "c", "o", "r", "r", "e", "c", "t", " ", "A", "P", "I", " ", "k", "e", "y",
         " ", "p", "r", "o", "v", "i", "d", "e", "d" >>,
      << "I", "n", "t", "e", "r", "n", "a", "l", " ", "s", "e", "r", "v", "e", "r", " ", "e",
         "r", "r", "o", "r" >>,
      << "m", "o", "d", "e", "l", " ", "n", "o", "t", " ", "f", "o", "u", "n", "d" >>,
      <<  >> }

\* no error
NoThrown == [kind |-> "none", name |-> "", message |-> << >>]

\* the errors that reach call's catch block: the signal's AbortError, and under
\* each of three names (err.name) the messages of each origin
ThrownErrors ==
    LET names == {"Error", "TypeError", "APIError"}
        of(kind, messages) ==
            {[kind |-> kind, name |-> n, message |-> m] : n \in names, m \in messages}
    IN  {[kind |-> "cancellation", name |-> AbortErr.name, message |-> AbortErr.message]}
            \cup of("timeout", TimerMessages)
            \cup of("overflow", OverflowMessages)
            \cup of("network", NetworkMessages)
            \cup of("generic", GenericMessages)

\* } catch (err) { if (err?.name === 'AbortError') throw err;
\*   const msg = formatErrorMessage(err); ...; throw new Error(msg); }
CatchFormats ==
    /\ mode = "err"
    /\ pc = "catch"
    /\ pc' = "rejected"
    /\ LET err == Err(thrown.name, thrown.message)
       IN  outcome' = IF err.name = "AbortError"
                      THEN Rejected(err)
                      ELSE Rejected(Err("Error", formatErrorMessage(err)))
    /\ UNCHANGED <<mode, text, maxChars, chunks, maxChunkChars, streamLen, aborted, i, fullText,
                   stack, inner, stream, chunkText, submitted, settled, emitted, inFlight,
                   abortAt, summVars, budgetVars, thrown, pending, tabVars>>

(***************************************************************************)
(* background/index.js: sanitizeTab, the two registries and the lifecycle   *)
(* listeners; content/index.js and Modal: the page's side of the keepalive  *)
(* port.                                                                    *)
(*                                                                          *)
(* A session is one invocation of sanitizeTab, named by its index in        *)
(* `sessions`; its AbortController is named by the same index. A step is    *)
(* one task of the service worker or of a page. A port that its page has    *)
(* let go ("lost": the modal closed it, or the page went away) fires        *)
(* onDisconnect in the service worker in a later task. What nothing reads   *)
(* again is cleared: the locals (got, port) of a session that has left its  *)
(* try block, the signal of a session that has ended (`how` keeps whether   *)
(* it was cancelled), the listener of a disconnected port.                  *)
(***************************************************************************)
Tabs == {1, 2}

Session(t) ==
    [tab |-> t, pc |-> "prepare", aborted |-> FALSE, got |-> 0, port |-> 0, how |-> "none",
     providers |-> 0, destroys |-> 0]

\* export const providers = { [ChromeSummarizerProvider.id]: ..., [OpenAIAgentsProvider.id]: ... }
providers == {"chrome-summarizer", "openai-agents"}

\* the values of settings.provider || DEFAULT_PROVIDER: chrome.storage.local may
\* hold an id that is not registered ("unknown"), among them the one name that
\* providers[id] finds on Object.prototype as a constructor
ProviderIds == providers \cup {"unknown", "constructor"}

\* const ProviderClass = providers[id]; if (!ProviderClass) throw new Error('Unknown
\* provider: ...'); return new ProviderClass(settings): a registered id makes one
\* more Provider instance; providers["constructor"] is Object, and new
\* Object(settings) is an object without call and destroy; any other id throws
createProvider(n, id) ==
    IF id \in providers THEN [kind |-> "provider", made |-> n + 1]
    ELSE IF id = "constructor" THEN [kind |-> "object", made |-> n]
    ELSE [kind |-> "thrown", made |-> n]

provider_destroy_skipped(n) == n

\* provider.destroy(): one more invocation on the session's provider
provider_destroy(n) == n + 1

\* the keepalive port that the modal shown for session s connects from tab t
Port(t, s) == [tab |-> t, state |-> "connecting", listener |-> FALSE, owner |-> s]

callVars == <<maxChunkChars, streamLen, aborted, i, fullText, stack, inner, stream, chunkText,
              outcome, submitted, settled, emitted, inFlight, abortAt>>

callVarsAll == <<text, maxChars, chunks, pc, callVars, summVars, budgetVars, thrown, pending>>

abortRegistered_everyTab(t) ==
    /\ sessions' = [s \in 1..Len(sessions) |->
                       IF \E u \in Tabs : tabAbortControllers[u] = s
                       THEN [sessions[s] EXCEPT !.aborted = TRUE]
                       ELSE sessions[s]]
    /\ tabAbortControllers' = [u \in Tabs |-> 0]

\* const ctrl = tabAbortControllers.get(tabId);
\* if (ctrl) { ctrl.abort(); tabAbortControllers.delete(tabId); }
abortRegistered(t) ==
    /\ sessions' = IF tabAbortControllers[t] # 0
                   THEN [sessions EXCEPT ![tabAbortControllers[t]].aborted = TRUE]
                   ELSE sessions
    /\ tabAbortControllers' = [tabAbortControllers EXCEPT ![t] = 0]

\* the page of tab t is gone: its ports are let go (one that has not reached the
\* service worker yet never does), its content script's modal too
pageGone(t) ==
    /\ ports' = [p \in 1..Len(ports) |->
                    IF ports[p].tab = t /\ ports[p].state = "open"
                    THEN [ports[p] EXCEPT !.state = "lost"]
                    ELSE IF ports[p].tab = t /\ ports[p].state = "connecting"
                    THEN [ports[p] EXCEPT !.state = "disconnected"]
                    ELSE ports[p]]
    /\ modal' = [modal EXCEPT ![t] = 0]

\* chrome.action.onClicked -> sanitizeTab(tab) on an ordinary page: the new
\* controller is registered under the tab, whatever was registered there
sanitizeTab(t) ==
    /\ mode = "tabs"
    /\ Len(sessions) < MaxSessions
    /\ url[t] = "page"
    /\ sessions' = Append(sessions, Session(t))
    /\ tabAbortControllers' = [tabAbortControllers EXCEPT ![t] = Len(sessions) + 1]
    /\ UNCHANGED <<mode, callVarsAll, keepalivePending, ports, modal, url>>

\* sanitizeTab(tab) on a protected page: the controller is registered, the
\* function returns at once and its finally deletes the tab's entry
sanitizeProtected(t) ==
    /\ mode = "tabs"
    /\ Len(sessions) < MaxSessions
    /\ url[t] = "protected"
    /\ sessions' = Append(sessions, [Session(t) EXCEPT !.pc = "ended", !.how = "protected"])
    /\ tabAbortControllers' = [tabAbortControllers EXCEPT ![t] = 0]
    /\ UNCHANGED <<mode, callVarsAll, keepalivePending, ports, modal, url>>

\* ensureContentScript, chrome.storage.local.get or the GET_CONTENT message
\* rejects: the catch block reports the error
PrepareFails(s) ==
    /\ mode = "tabs"
    /\ sessions[s].pc = "prepare"
    /\ sessions' = [sessions EXCEPT ![s].pc = "report"]
    /\ UNCHANGED <<mode, callVarsAll, tabAbortControllers, keepalivePending, ports, modal, url>>

NoContent_keepsEntry(s) ==
    /\ mode = "tabs"
    /\ sessions[s].pc = "prepare"
    /\ sessions' = [sessions EXCEPT ![s].pc = "ended", ![s].how = "nocontent",
                                    ![s].aborted = FALSE]
    /\ UNCHANGED <<mode, callVarsAll, tabAbortControllers, keepalivePending, ports, modal, url>>

\* the answer to GET_CONTENT reaches the service worker without text (the page
\* answered in a task of its own; the tab may have been removed or updated
\* since, and sanitizeTab does not look at the tab again):
\* if (!article || !article.textContent) return; then the finally
NoContent(s) ==
    /\ mode = "tabs"
    /\ sessions[s].pc = "prepare"
    /\ sessions' = [sessions EXCEPT ![s].pc = "ended", ![s].how = "nocontent",
                                    ![s].aborted = FALSE]
    /\ tabAbortControllers' = [tabAbortControllers EXCEPT ![sessions[s].tab] = 0]
    /\ UNCHANGED <<mode, callVarsAll, keepalivePending, ports, modal, url>>

\* the answer to GET_CONTENT reaches the service worker with an article (the
\* page answered in a task of its own; the tab may have been removed or updated
\* since); waitForKeepalive up to its first await:
\* keepalivePending.set(tabId, { resolve }), and the SHOW_MODAL message is sent
waitForKeepalive(s) ==
    /\ mode = "tabs"
    /\ sessions[s].pc = "prepare"
    /\ keepalivePending' = [keepalivePending EXCEPT ![sessions[s].tab] = s]
    /\ sessions' = [sessions EXCEPT ![s].pc = "showModal"]
    /\ UNCHANGED <<mode, callVarsAll, tabAbortControllers, ports, modal, url>>

\* the content script handles the SHOW_MODAL message of session s:
\* modal = new Modal(); modal.show(...): the new modal connects a port of its
\* own (the port of the modal before stays as it is); sendResponse
ShowModal(s) ==
    /\ mode = "tabs"
    /\ sessions[s].pc = "showModal"
    /\ url[sessions[s].tab] = "page"
    /\ ports' = Append(ports, Port(sessions[s].tab, s))
    /\ modal' = [modal EXCEPT ![sessions[s].tab] = Len(ports) + 1]
    /\ sessions' = [sessions EXCEPT ![s].pc = "shown"]
    /\ UNCHANGED <<mode, callVarsAll, tabAbortControllers, keepalivePending, url>>

\* the response to SHOW_MODAL arrives: waitForKeepalive goes on to its race of
\* the keepalive promise (which onConnect may have resolved already) and the timer
ShowModalResponds(s) ==
    /\ mode = "tabs"
    /\ sessions[s].pc = "shown"
    /\ sessions' = [sessions EXCEPT ![s].pc = "keepalive"]
    /\ UNCHANGED <<mode, callVarsAll, tabAbortControllers, keepalivePending, ports, modal, url>>

\* the SHOW_MODAL message rejects (no receiver in the tab): waitForKeepalive
\* throws, the entry stays in keepalivePending as it is and sanitizeTab's catch
\* reports
ShowModalFails(s) ==
    /\ mode = "tabs"
    /\ sessions[s].pc = "showModal"
    /\ sessions' = [sessions EXCEPT ![s].pc = "report", ![s].got = 0]
    /\ UNCHANGED <<mode, callVarsAll, tabAbortControllers, keepalivePending, ports, modal, url>>

\* chrome.runtime.onConnect: the tab's pending entry, if any, is resolved with
\* the port and deleted (a session that no longer waits never reads the port).
\* A port that its modal has let go while it was connecting arrives with its
\* disconnect to follow.
onConnect(p) ==
    /\ mode = "tabs"
    /\ ports[p].state \in {"connecting", "closing"}
    /\ ports' = [ports EXCEPT ![p].state = IF @ = "connecting" THEN "open" ELSE "lost"]
    /\ LET entry == keepalivePending[ports[p].tab]
       IN  IF entry # 0
           THEN /\ sessions' = [sessions EXCEPT ![entry].got =
                                    IF sessions[entry].pc \in {"showModal", "shown", "keepalive"}
                                    THEN p ELSE @]
                /\ keepalivePending' = [keepalivePending EXCEPT ![ports[p].tab] = 0]
           ELSE UNCHANGED <<sessions, keepalivePending>>
    /\ UNCHANGED <<mode, callVarsAll, tabAbortControllers, modal, url>>

\* a port that its modal let go before it reached the service worker is never
\* delivered there (whether such a port arrives is the browser's choice)
PortDropped(p) ==
    /\ mode = "tabs"
    /\ ports[p].state = "closing"
    /\ ports' = [ports EXCEPT ![p].state = "disconnected"]
    /\ UNCHANGED <<mode, callVarsAll, sessions, tabAbortControllers, keepalivePending, modal, url>>

\* waitForKeepalive has returned `port`: createProvider(providerId, {...}) makes
\* the provider and provider.call starts; or it throws before the inner try:
\* the catch block reports, and the port is left as it is; or what it returns
\* has no call: provider.call(...) throws inside the inner try, whose finally
\* deletes the tab's entry and throws at provider.destroy(), before the port is
\* disconnected, and the catch block reports
callProvider(s, port, id) ==
    LET made == createProvider(sessions[s].providers, id)
    IN  /\ sessions' = [sessions EXCEPT ![s].pc = IF made.kind = "provider" THEN "call" ELSE "report",
                                        ![s].got = IF made.kind = "provider" THEN @ ELSE 0,
                                        ![s].port = IF made.kind = "provider" THEN port ELSE 0,
                                        ![s].providers = made.made]
        /\ tabAbortControllers' = IF made.kind = "object"
                                  THEN [tabAbortControllers EXCEPT ![sessions[s].tab] = 0]
                                  ELSE tabAbortControllers

\* waitForKeepalive's race settles with the port: port.onDisconnect gets its
\* listener (which can fire only if the port has not fired onDisconnect yet),
\* then the provider is created and called
KeepaliveConnected(s) ==
    /\ mode = "tabs"
    /\ sessions[s].pc = "keepalive"
    /\ sessions[s].got # 0
    /\ ports' = [ports EXCEPT ![sessions[s].got].listener = (@ \/ ports[sessions[s].got].state # "disconnected")]
    /\ \E id \in ProviderIds : callProvider(s, sessions[s].got, id)
    /\ UNCHANGED <<mode, callVarsAll, keepalivePending, modal, url>>

\* waitForKeepalive's race settles with the timer: keepalivePending.delete(tabId),
\* no port; then the provider is created and called
KeepaliveTimeout(s) ==
    /\ mode = "tabs"
    /\ sessions[s].pc = "keepalive"
    /\ sessions[s].got = 0
    /\ keepalivePending' = [keepalivePending EXCEPT ![sessions[s].tab] = 0]
    /\ \E id \in ProviderIds : callProvider(s, 0, id)
    /\ UNCHANGED <<mode, callVarsAll, ports, modal, url>>

\* provider.call settles; the inner finally deletes the tab's entry, destroys the
\* provider and disconnects the session's port (a port that the service worker
\* has disconnected dispatches no event there any more, also when the page had
\* let it go before; the page learns of the disconnect in a task of its own).
\* A resolved call and an error named AbortError (err?.name === 'AbortError':
\* the signal's, or one that the backend raised by itself) end the session
\* through the outer finally; any other error goes to the catch block's report.
CallSettles(s) ==
    /\ mode = "tabs"
    /\ sessions[s].pc = "call"
    /\ \E result \in {"ok", "cancelled", "error"} :
           /\ sessions' = [sessions EXCEPT ![s].pc = IF result = "error" THEN "report" ELSE "ended",
                                           ![s].how = result,
                                           ![s].aborted = IF result = "error" THEN @ ELSE FALSE,
                                           ![s].got = 0,
                                           ![s].port = 0,
                                           ![s].destroys = provider_destroy(@)]
    /\ tabAbortControllers' = [tabAbortControllers EXCEPT ![sessions[s].tab] = 0]
    /\ LET p == sessions[s].port
       IN  IF p # 0 /\ ports[p].state \in {"connecting", "open", "lost"}
           THEN ports' = [ports EXCEPT ![p].state = "disconnected", ![p].listener = FALSE]
           ELSE UNCHANGED ports
    /\ UNCHANGED <<mode, callVarsAll, keepalivePending, modal, url>>

\* the disconnect of the service worker reaches the page of tab t, whose modal
\* still holds the port:
\* this.keepAlivePort.onDisconnect.addListener(() => { this.keepAlivePort = null; })
keepAlivePortDisconnected(t) ==
    /\ mode = "tabs"
    /\ modal[t] # 0
    /\ ports[modal[t]].state = "disconnected"
    /\ modal' = [modal EXCEPT ![t] = 0]
    /\ UNCHANGED <<mode, callVarsAll, sessions, tabAbortControllers, keepalivePending, ports, url>>

\* the catch block has set the badge and the title and sent SHOW_MODAL with
\* isError; the content script handles it: modal = new Modal(); modal.show(...),
\* a modal without a port (the port of the modal before stays as it is)
ShowErrorModal(s) ==
    /\ mode = "tabs"
    /\ sessions[s].pc = "report"
    /\ url[sessions[s].tab] = "page"
    /\ modal' = [modal EXCEPT ![sessions[s].tab] = 0]
    /\ sessions' = [sessions EXCEPT ![s].pc = "reported"]
    /\ UNCHANGED <<mode, callVarsAll, tabAbortControllers, keepalivePending, ports, url>>

\* the catch block is left, by the response to its SHOW_MODAL message or by the
\* message's rejection (no receiver in the tab: the tab is closed or shows a
\* protected page, or the page that was to receive it has been reloaded since);
\* the outer finally deletes the tab's entry
ReportDone(s) ==
    /\ mode = "tabs"
    /\ sessions[s].pc \in {"report", "reported"}
    /\ sessions' = [sessions EXCEPT ![s].pc = "ended", ![s].how = "error",
                                    ![s].aborted = FALSE]
    /\ tabAbortControllers' = [tabAbortControllers EXCEPT ![sessions[s].tab] = 0]
    /\ UNCHANGED <<mode, callVarsAll, keepalivePending, ports, modal, url>>

\* chrome.tabs.onRemoved
TabRemoved(t) ==
    /\ mode = "tabs"
    /\ url[t] # "closed"
    /\ abortRegistered(t)
    /\ pageGone(t)
    /\ url' = [url EXCEPT ![t] = "closed"]
    /\ UNCHANGED <<mode, callVarsAll, keepalivePending>>

\* chrome.tabs.onUpdated with changeInfo.status === "loading": the tab reloads
\* or navigates, to an ordinary or to a protected page
TabUpdated(t) ==
    /\ mode = "tabs"
    /\ url[t] # "closed"
    /\ abortRegistered(t)
    /\ pageGone(t)
    /\ \E u \in {"page", "protected"} : url' = [url EXCEPT ![t] = u]
    /\ UNCHANGED <<mode, callVarsAll, keepalivePending>>

\* Modal.close: the user closes the current modal, which disconnects its port:
\* if (this.keepAlivePort) { this.keepAlivePort.disconnect(); this.keepAlivePort = null; }
\* (also a port that has not reached the service worker yet: "closing", and
\* one that the service worker has disconnected already, which stays so)
CloseModal(t) ==
    /\ mode = "tabs"
    /\ modal[t] # 0
    /\ ports' = [ports EXCEPT ![modal[t]].state = IF @ = "connecting" THEN "closing"
                                                  ELSE IF @ = "open" THEN "lost" ELSE @]
    /\ modal' = [modal EXCEPT ![t] = 0]
    /\ UNCHANGED <<mode, callVarsAll, sessions, tabAbortControllers, keepalivePending, url>>

\* port.onDisconnect fires in the service worker; the listener that
\* waitForKeepalive registered aborts whatever is registered under its tab
PortDisconnected(p) ==
    /\ mode = "tabs"
    /\ ports[p].state = "lost"
    /\ ports' = [ports EXCEPT ![p].state = "disconnected", ![p].listener = FALSE]
    /\ IF ports[p].listener
       THEN abortRegistered(ports[p].tab)
       ELSE UNCHANGED <<sessions, tabAbortControllers>>
    /\ UNCHANGED <<mode, callVarsAll, keepalivePending, modal, url>>

(***************************************************************************)
(* The specifications.                                                     *)
(***************************************************************************)
vars == <<mode, text, maxChars, chunks, pc, maxChunkChars, streamLen, aborted, i, fullText, stack,
          inner, stream, chunkText, outcome, submitted, settled, emitted, inFlight,
          abortAt, _summarizer, session, summaries, rounds, availability, released,
          contextLength, detected,
          promptLength, thrown, pending, sessions, tabAbortControllers, keepalivePending, ports, modal,
          url>>

\* the service worker has just started: no session, empty registries, every tab
\* showing an ordinary page without a modal
TabsIdle ==
    /\ sessions = << >>
    /\ tabAbortControllers = [t \in Tabs |-> 0]
    /\ keepalivePending = [t \in Tabs |-> 0]
    /\ ports = << >>
    /\ modal = [t \in Tabs |-> 0]
    /\ url = [t \in Tabs |-> "page"]

\* no budget is being computed
BudgetIdle ==
    /\ contextLength = 0
    /\ detected = 0
    /\ promptLength = 0

\* no summarizer call is running
SummIdle ==
    /\ _summarizer = "none"
    /\ session = "none"
    /\ summaries = << >>
    /\ rounds = 0
    /\ availability = "none"
    /\ released = 0

\* no call is running
CallIdle ==
    /\ maxChunkChars = 0
    /\ streamLen = 0
    /\ aborted = FALSE
    /\ i = 0
    /\ fullText = << >>
    /\ stack = << >>
    /\ inner = "none"
    /\ stream = EmptyStream
    /\ chunkText = << >>
    /\ outcome = NoOutcome
    /\ submitted = << >>
    /\ settled = << >>
    /\ emitted = << >>
    /\ inFlight = {}
    /\ abortAt = NeverAborted
    /\ SummIdle

\* SpecSplit: splitText applied to every text of at most MaxTextLen characters
\* and every bound 1..MaxBudget
InitSplit ==
    /\ mode = "split"
    /\ text \in TextsUpTo(MaxTextLen)
    /\ maxChars \in 1..MaxBudget
    /\ chunks = << >>
    /\ pc = "split_input"
    /\ CallIdle
    /\ BudgetIdle
    /\ thrown = NoThrown
    /\ pending = << >>
    /\ TabsIdle

\* const chunks = splitText(text, maxChars)
DoSplit ==
    /\ mode = "split"
    /\ pc = "split_input"
    /\ chunks' = splitText(text, maxChars)
    /\ pc' = "split_done"
    /\ UNCHANGED <<mode, text, maxChars, callVars, summVars, budgetVars, thrown, pending, tabVars>>

NextSplit == DoSplit

SpecSplit == InitSplit /\ [][NextSplit]_vars

\* an invocation _splitRecursive(s, maxChars, sepIdx) that is still to run, the
\* depth-th of the nested invocations (the one splitText makes is the first)
Invocation(s, sepIdx, depth) ==
    [chunk |-> s, sepIdx |-> sepIdx, depth |-> depth, returned |-> FALSE]

\* a chunk that an invocation has returned
Returned(s, sepIdx, depth) ==
    [chunk |-> s, sepIdx |-> sepIdx, depth |-> depth, returned |-> TRUE]

nextSeparator_restart(sepIdx) == 0

\* the separator index of a nested invocation: sepIdx + 1
nextSeparator(sepIdx) == sepIdx + 1

\* what the invocation inv returns, chunk by chunk in order, the nested
\* invocations it makes standing where their chunks will be
invoked(inv) ==
    LET s == inv.chunk
        done(c) == Returned(c, inv.sepIdx, inv.depth)
        nested(c) == Invocation(c, nextSeparator(inv.sepIdx), inv.depth + 1)
    IN  IF Len(s) <= maxChars
        THEN << done(s) >>
        ELSE IF inv.sepIdx >= Len(SEPARATORS)
        THEN LET slices == hardSlice(s, maxChars)
             IN  [k \in 1..Len(slices) |-> done(slices[k])]
        ELSE LET sep == SEPARATORS[inv.sepIdx + 1]
                 parts == split(s, sep)
                 merged == mergeParts(parts, 1, sep, maxChars, << >>, << >>)
             IN  IF Len(parts) <= 1
                 THEN << nested(s) >>
                 ELSE [k \in 1..Len(merged) |->
                          IF Len(merged[k]) > maxChars THEN nested(merged[k])
                          ELSE done(merged[k])]

\* the returned chunks at the front of items are splitText's next chunks; what
\* follows waits for the invocation at its front
SplitGoesOn(items) ==
    LET RECURSIVE front(_)
        front(k) == IF k <= Len(items) /\ items[k].returned THEN front(k + 1) ELSE k - 1
        n == front(1)
    IN  /\ chunks' = chunks \o [k \in 1..n |-> items[k].chunk]
        /\ pending' = SubSeq(items, n + 1, Len(items))
        /\ pc' = IF n = Len(items) THEN "rec_done" ELSE "rec"

\* splitText(text, maxChars): if (text.length <= maxChars) return [text];
\* return _splitRecursive(text, maxChars, 0)
splitTextCalled ==
    /\ mode = "rec"
    /\ pc = "rec_input"
    /\ SplitGoesOn(IF Len(text) <= maxChars
                   THEN << Returned(text, 0, 0) >>
                   ELSE << Invocation(text, 0, 1) >>)
    /\ UNCHANGED <<mode, text, maxChars, callVars, summVars, budgetVars, thrown, tabVars>>

\* the invocation of _splitRecursive that is due runs up to its nested
\* invocations
Invoke ==
    /\ mode = "rec"
    /\ pc = "rec"
    /\ SplitGoesOn(invoked(Head(pending)) \o Tail(pending))
    /\ UNCHANGED <<mode, text, maxChars, callVars, summVars, budgetVars, thrown, tabVars>>

\* SpecRec: splitText on every text of at most MaxTextLen characters and every
\* bound 1..MaxBudget, one invocation of _splitRecursive at a time
InitRec ==
    /\ mode = "rec"
    /\ text \in TextsUpTo(MaxTextLen)
    /\ maxChars \in 1..MaxBudget
    /\ chunks = << >>
    /\ pc = "rec_input"
    /\ CallIdle
    /\ BudgetIdle
    /\ thrown = NoThrown
    /\ pending = << >>
    /\ TabsIdle

NextRec ==
    \/ splitTextCalled
    \/ Invoke

SpecRec == InitRec /\ [][NextRec]_vars

\* SpecCall: one OpenAIAgentsProvider.call on every text of CallTexts, with every
\* budget 2..MaxChunkChars (call's budget is at least MIN_CONTENT_TOKENS *
\* CHARS_PER_TOKEN = 768 characters; 2 is the smallest whose half is a budget),
\* against a backend whose complete streams carry streamLen fragments. The
\* text's length and streamLen together are at most MaxCallSize, and a text of
\* MaxCallSize characters or more is answered in streams of one fragment.
InitCall ==
    /\ mode = "call"
    /\ text \in CallTexts
    /\ maxChars = 0
    /\ maxChunkChars \in 2..MaxChunkChars
    /\ streamLen \in 1..(IF Len(text) < MaxCallSize THEN MaxCallSize - Len(text) ELSE 1)
    /\ chunks = << >>
    /\ pc = "detect"
    /\ aborted = FALSE
    /\ i = 0
    /\ fullText = << >>
    /\ stack = << >>
    /\ inner = "none"
    /\ stream = EmptyStream
    /\ chunkText = << >>
    /\ outcome = NoOutcome
    /\ submitted = << >>
    /\ settled = << >>
    /\ emitted = << >>
    /\ inFlight = {}
    /\ abortAt = NeverAborted
    /\ SummIdle
    /\ BudgetIdle
    /\ thrown = NoThrown
    /\ pending = << >>
    /\ TabsIdle

NextCall ==
    \/ Detect
    \/ CallReturn
    \/ LoopAbort
    \/ LoopSubmit
    \/ SubLoopReturn
    \/ SubLoopAbort
    \/ SubLoopSubmit
    \/ BackendYield
    \/ BackendClose
    \/ BackendError
    \/ RunResolve
    \/ RunReject
    \/ CompletedResolve
    \/ CompletedReject
    \/ Abort
    \/ Timeout

SpecCall == InitCall /\ [][NextCall]_vars

\* SpecTabs: up to MaxSessions clicks on the tabs of Tabs, against every timing
\* of the pages' messages and ports and of the tabs' lifecycle events
InitTabs ==
    /\ mode = "tabs"
    /\ text = << >>
    /\ maxChars = 0
    /\ chunks = << >>
    /\ pc = "idle"
    /\ CallIdle
    /\ BudgetIdle
    /\ thrown = NoThrown
    /\ pending = << >>
    /\ TabsIdle

NextTabs ==
    \/ \E t \in Tabs : sanitizeTab(t)
    \/ \E t \in Tabs : sanitizeProtected(t)
    \/ \E s \in 1..Len(sessions) : PrepareFails(s)
    \/ \E s \in 1..Len(sessions) : NoContent(s)
    \/ \E s \in 1..Len(sessions) : waitForKeepalive(s)
    \/ \E s \in 1..Len(sessions) : ShowModal(s)
    \/ \E s \in 1..Len(sessions) : ShowModalResponds(s)
    \/ \E s \in 1..Len(sessions) : ShowModalFails(s)
    \/ \E p \in 1..Len(ports) : onConnect(p)
    \/ \E p \in 1..Len(ports) : PortDropped(p)
    \/ \E s \in 1..Len(sessions) : KeepaliveConnected(s)
    \/ \E s \in 1..Len(sessions) : KeepaliveTimeout(s)
    \/ \E s \in 1..Len(sessions) : CallSettles(s)
    \/ \E s \in 1..Len(sessions) : ShowErrorModal(s)
    \/ \E s \in 1..Len(sessions) : ReportDone(s)
    \/ \E t \in Tabs : TabRemoved(t)
    \/ \E t \in Tabs : TabUpdated(t)
    \/ \E t \in Tabs : CloseModal(t)
    \/ \E t \in Tabs : keepAlivePortDisconnected(t)
    \/ \E p \in 1..Len(ports) : PortDisconnected(p)

SpecTabs == InitTabs /\ [][NextTabs]_vars

\* SpecSumm: one ChromeSummarizerProvider.call on every text of SummTexts, with
\* every setting and input quota of SummQuotas, against a backend whose
\* final summary streams streamLen fragments, under every timing of the signal
InitSumm ==
    /\ mode = "summ"
    /\ text \in SummTexts
    /\ maxChars = 0
    /\ chunks = << >>
    /\ pc = "new"
    /\ maxChunkChars = 0
    /\ streamLen \in 0..MaxSummaryLen
    /\ aborted = FALSE
    /\ i = 0
    /\ fullText = << >>
    /\ stack = << >>
    /\ inner = "none"
    /\ stream = EmptyStream
    /\ chunkText = << >>
    /\ outcome = NoOutcome
    /\ submitted = << >>
    /\ settled = << >>
    /\ emitted = << >>
    /\ inFlight = {}
    /\ abortAt = NeverAborted
    /\ _summarizer = "none"
    /\ session = "none"
    /\ summaries = << >>
    /\ rounds = 0
    /\ availability \in Availabilities
    /\ released = 0
    /\ BudgetIdle
    /\ thrown = NoThrown
    /\ pending = << >>
    /\ TabsIdle

NextSumm ==
    \/ call
    \/ CheckAvailabilityReturns
    \/ AvailabilityResolves
    \/ CreateResolves
    \/ CreateRejects
    \/ SummarizeResolves
    \/ SummarizeRejects
    \/ StreamYields
    \/ StreamEnds
    \/ StreamRejects
    \/ SummAbort
    \/ destroy

SpecSumm == InitSumm /\ [][NextSumm]_vars

\* SpecBudget: the chunk budget for every setting and detected value of
\* ContextLengths and every prompt length of PromptLengths
InitBudget ==
    /\ mode = "budget"
    /\ text = << >>
    /\ maxChars = 0
    /\ chunks = << >>
    /\ pc = "budget_input"
    /\ contextLength \in ContextLengths
    /\ detected \in ContextLengths
    /\ promptLength \in PromptLengths
    /\ CallIdle
    /\ thrown = NoThrown
    /\ pending = << >>
    /\ TabsIdle

NextBudget ==
    \/ DetectContextLength
    \/ ComputeBudget

SpecBudget == InitBudget /\ [][NextBudget]_vars

\* SpecErr: call's catch block on every error of ThrownErrors
InitErr ==
    /\ mode = "err"
    /\ text = << >>
    /\ maxChars = 0
    /\ chunks = << >>
    /\ pc = "catch"
    /\ thrown \in ThrownErrors
    /\ pending = << >>
    /\ CallIdle
    /\ BudgetIdle
    /\ TabsIdle

SpecErr == InitErr /\ [][CatchFormats]_vars

(***************************************************************************)
(* Claims about splitText (SpecSplit).                                     *)
(***************************************************************************)
hasNoSeparator(s) == \A k \in 1..Len(SEPARATORS) : Len(split(s, SEPARATORS[k])) = 1

\* C1: for every text T and bound B >= 1, every chunk returned by
\* splitText(T, B) has length <= B.
C1_ChunksWithinBound ==
    pc = "split_done" => \A k \in 1..Len(chunks) : Len(chunks[k]) <= maxChars

\* C1 witness: a text longer than the bound, without any separator, was cut by
\* the hard slice into at least three chunks.
C1_Witness ==
    /\ pc = "split_done"
    /\ Len(text) > maxChars
    /\ hasNoSeparator(text)
    /\ Len(chunks) >= 3

Glues == {SEPARATORS[k] : k \in 1..Len(SEPARATORS)} \cup {<< >>}

isPrefix(p, s) == Len(p) <= Len(s) /\ SubSeq(s, 1, Len(p)) = p

dropFirst(s, n) == SubSeq(s, n + 1, Len(s))

RECURSIVE rejoins(_, _, _)
\* cs[k..], joined in order with some separator (or nothing) at each boundary, is `rest`
rejoins(cs, k, rest) ==
    IF k > Len(cs)
    THEN rest = << >>
    ELSE /\ isPrefix(cs[k], rest)
         /\ LET r == dropFirst(rest, Len(cs[k]))
            IN  IF k = Len(cs)
                THEN r = << >>
                ELSE \E g \in Glues : isPrefix(g, r) /\ rejoins(cs, k + 1, dropFirst(r, Len(g)))

\* C2: for every text T and bound B >= 1 the chunks of splitText(T, B), rejoined
\* in order with the separators at which they were cut (nothing between
\* hard-sliced pieces), reconstruct T exactly. Stated in its most generous form:
\* some choice of a separator or of nothing at each chunk boundary gives back T.
C2_ChunksRejoinToText ==
    pc = "split_done" => rejoins(chunks, 1, text)

(***************************************************************************)
(* Claims about OpenAIAgentsProvider.call (SpecCall).                      *)
(***************************************************************************)
settledCall == pc \in {"resolved", "rejected"}

\* the token of the f-th emitted delta
token(f) == emitted[f][1]

\* the top-level chunk (1-based) a submission works for
topOf(s) == submitted[s].top

\* the submissions made on behalf of top-level chunk t
submissionsFor(t) == {s \in 1..Len(submitted) : topOf(s) = t}

\* what a backend whose streams are complete answers to submission s
resultOf(s) == [k \in 1..streamLen |-> [sub |-> s, k |-> k]]

\* C3: for every provider call that completes successfully, the concatenation
\* of all deltas passed to onUpdate during the call, in emission order, equals
\* the returned content exactly, also when a chunk attempt streamed some
\* output before failing and was recovered by re-splitting.
C3_DeltasEqualContent ==
    pc = "resolved" => concat(emitted) = outcome.content

\* C4: if the signal fires after chunk k has completed and before chunk k+1
\* starts (0 <= k < n), then exactly k chunks were submitted, exactly the deltas
\* of chunks 1..k were emitted, no further chunk is submitted, nothing more is
\* emitted, and the call can only reject with the AbortError.
C4_AbortBetweenChunks ==
    (abortAt.pc \in {"detect", "loop"} /\ pc # "detect" /\ abortAt.i < Len(chunks)) =>
        /\ Len(submitted) = abortAt.nSub
        /\ Len(emitted) = abortAt.nEmit
        /\ Cardinality({s \in 1..Len(submitted) : submitted[s].depth = 0}) = abortAt.i
        /\ \A s \in 1..Len(submitted) : topOf(s) <= abortAt.i
        /\ \A f \in 1..Len(emitted) : topOf(token(f).sub) <= abortAt.i
        /\ \A s \in 1..Len(submitted) :
               settled[s] = "ok" =>
                   \A k \in 1..streamLen : \E f \in 1..Len(emitted) : token(f) = [sub |-> s, k |-> k]
        /\ inFlight = {}
        /\ pc \in {"loop", "rejected"}
        /\ pc = "loop" => i = abortAt.i
        /\ pc = "rejected" => outcome = Rejected(AbortErr)

\* C4 witness: the signal fired between chunk 1 and chunk 2 of a call over at
\* least two chunks, chunk 1's deltas are out, and the call rejected.
C4_Witness ==
    /\ abortAt.pc = "loop"
    /\ abortAt.i = 1
    /\ Len(chunks) >= 2
    /\ Len(emitted) >= 1
    /\ pc = "rejected"
    /\ outcome.name = "AbortError"

allOverflow == submitted # << >> /\ \A s \in 1..Len(settled) : settled[s] = "overflow"

\* C5: when every submission fails with an overflow-classified error, the
\* retry depth never exceeds MAX_RETRY_DEPTH and the call fails, with the
\* (normalized) overflow error.
C5_AlwaysOverflowFails ==
    /\ \A s \in 1..Len(submitted) : submitted[s].depth <= MAX_RETRY_DEPTH
    /\ (allOverflow /\ ~aborted /\ settledCall) =>
           /\ pc = "rejected"
           /\ outcome = Rejected(Err("Error", MsgFmtContext))

\* C6 as stated: at most 2^MAX_RETRY_DEPTH = 4 submissions are made on behalf of
\* one top-level chunk.
C6_AtMostFourSubmissions ==
    \A t \in 1..Len(chunks) : Cardinality(submissionsFor(t)) <= 4

\* C6 as amended: the submissions made on behalf of one top-level chunk are at
\* most 1 + 2 * n, n being the number of sub-chunks that
\* splitText(chunk, floor(maxChunkChars / 2)) gives: the chunk itself, each
\* sub-chunk at depth 1, and each sub-chunk once more at depth 2 (one
\* resubmission per level of MAX_RETRY_DEPTH = 2).
C6_SubmissionsPerChunk ==
    \A t \in 1..Len(chunks) :
        Cardinality(submissionsFor(t)) <=
            1 + 2 * Len(splitText(chunks[t], maxChunkChars \div 2))

\* C6 witness: a chunk took five submissions (itself, and its two sub-chunks
\* twice each), and the call went on to succeed.
C6_Witness ==
    /\ pc = "resolved"
    /\ \E t \in 1..Len(chunks) :
           /\ Len(splitText(chunks[t], maxChunkChars \div 2)) = 2
           /\ Cardinality(submissionsFor(t)) = 5

firstFailsRestSucceed ==
    /\ Len(chunks) = 1
    /\ pc = "resolved"
    /\ settled # << >>
    /\ settled[1] = "overflow"
    /\ \A s \in 2..Len(settled) : settled[s] = "ok"

\* C7: when the first submission of a chunk fails with "context length
\* exceeded" and every later submission succeeds, the call ends successfully
\* after exactly 3 submissions (1 failed + 2 succeeded), its result being the
\* in-order concatenation of the two half-chunk results.
C7_ThreeSubmissions ==
    firstFailsRestSucceed =>
        /\ Len(submitted) = 3
        /\ outcome.content = resultOf(2) \o resultOf(3)

\* C9: at most one submission is in flight at any time; the top-level chunks
\* are submitted in their original order; and a submission is made only after
\* the one before it has settled successfully, or, for the first sub-chunk of
\* a recovery, after the submission it recovers has failed with an overflow.
C9_Sequential ==
    /\ Cardinality(inFlight) <= 1
    /\ \A s \in 1..Len(submitted) :
           /\ submitted[s].depth = 0 =>
                  /\ submitted[s].chunk = chunks[topOf(s)]
                  /\ topOf(s) = 1 + Cardinality({r \in 1..(s - 1) : submitted[r].depth = 0})
           /\ s = 1 => submitted[s].after = "none" /\ submitted[s].depth = 0
           /\ s > 1 =>
                  \/ submitted[s].after = "ok"
                  \/ /\ submitted[s].after = "overflow"
                     /\ submitted[s].depth = submitted[s - 1].depth + 1
                     /\ topOf(s) = topOf(s - 1)
           /\ s < Len(submitted) => settled[s] \in {"ok", "overflow"}

emittedOf(s) == {f \in 1..Len(emitted) : token(f).sub = s}

\* C10: deltas are emitted in chunk order and, within a chunk, in the order the
\* backend produced them: a delta of an earlier chunk (or submission) never
\* follows one of a later, the deltas of one submission come in the backend's
\* order without a gap or a repetition, and every fragment read is emitted
\* before the next is read (what _streamChunk has read is what it has emitted).
C10_DeltasInOrder ==
    /\ \A f, g \in 1..Len(emitted) :
           f < g =>
               /\ topOf(token(f).sub) <= topOf(token(g).sub)
               /\ token(f).sub <= token(g).sub
               /\ token(f).sub = token(g).sub => token(f).k < token(g).k
    /\ \A f \in 1..Len(emitted) :
           /\ Len(emitted[f]) = 1
           /\ \A j \in 1..(token(f).k - 1) :
                  \E g \in 1..(f - 1) : token(g) = [sub |-> token(f).sub, k |-> j]
    /\ inner \in {"read", "completed"} =>
           /\ Cardinality(emittedOf(CurrentSub)) = stream.n
           /\ chunkText = [k \in 1..stream.n |-> [sub |-> CurrentSub, k |-> k]]

\* C10 witness: a successful call has emitted two deltas of one chunk and then
\* a delta of a later chunk.
C10_Witness ==
    /\ pc = "resolved"
    /\ \E f, g, h \in 1..Len(emitted) :
           /\ f < g /\ g < h
           /\ topOf(token(f).sub) = topOf(token(g).sub)
           /\ topOf(token(g).sub) < topOf(token(h).sub)

\* a submission ended in a terminal error: a failure that is not a cancellation
\* and that no re-split recovers (no overflow, the chunk timer, or an overflow at
\* the last depth)
terminalError(s) ==
    \/ settled[s] \in {"error", "timeout"}
    \/ settled[s] = "overflow" /\ submitted[s].depth = 2

\* the user-facing message for each kind of terminal error
normalizedFor(mark) ==
    IF mark = "timeout" THEN MsgFmtTimeout
    ELSE IF mark = "overflow" THEN MsgFmtContext
    ELSE MsgFmtNetwork

terminalErrorFails ==
    \A s \in 1..Len(settled) :
        terminalError(s) =>
            /\ pc = "rejected"
            /\ outcome = Rejected(Err("Error", normalizedFor(settled[s])))

\* C15: once a submission has ended in a terminal error the call has rejected
\* with an Error carrying the normalized message of that error and no content,
\* whatever the chunks before had added to the aggregate; and an outcome, once
\* there, never changes (nothing settles the call a second time).
C15_TerminalErrorFailsCall ==
    [][terminalErrorFails' /\ (outcome # NoOutcome => outcome' = outcome)]_vars

\* a chunk has succeeded (the aggregate holds its text) and a later submission
\* ended in a terminal error
C15_Witness ==
    /\ fullText # << >>
    /\ \E s \in 1..Len(settled) : terminalError(s)
    /\ pc = "rejected"

(***************************************************************************)
(* Claims about sanitizeTab and the tab registries (SpecTabs).             *)
(***************************************************************************)
\* the sessions of tab t that have not ended
inFlightSessions(t) ==
    {s \in 1..Len(sessions) : sessions[s].tab = t /\ sessions[s].pc # "ended"}

\* C8: at every moment at most one session is active per tab: when sanitizeTab
\* starts for a tab that has a session in flight, that session's signal is
\* aborted first, so a tab never has two sessions in flight whose signals are
\* both unfired.
C8_OneActiveSessionPerTab ==
    \A t \in Tabs :
        Cardinality({s \in inFlightSessions(t) : ~sessions[s].aborted}) <= 1

\* C13: a session that has made a Provider instance has invoked destroy() on it
\* exactly once when it has left its try block (resolved, cancelled or failed
\* call), and not at all before its call has settled.
C13_DestroyExactlyOnce ==
    \A s \in 1..Len(sessions) :
        /\ sessions[s].providers <= 1
        /\ sessions[s].pc \in {"prepare", "showModal", "shown", "keepalive", "call"} =>
               sessions[s].destroys = 0
        /\ sessions[s].pc \in {"report", "reported", "ended"} =>
               sessions[s].destroys = sessions[s].providers

\* two sessions have ended, one with a cancelled and one with a failed call,
\* each with its provider destroyed
C13_Witness ==
    /\ \E s \in 1..Len(sessions) :
          sessions[s].pc = "ended" /\ sessions[s].how = "cancelled" /\ sessions[s].destroys = 1
    /\ \E s \in 1..Len(sessions) :
          sessions[s].pc = "ended" /\ sessions[s].how = "error" /\ sessions[s].destroys = 1

\* C14: a session whose cancellation signal has fired does not go on to the
\* catch block's error report (error badge, error title, error status, error
\* modal): it ends silently.
C14_CancellationIsSilent ==
    [][\A s \in 1..Len(sessions) :
          (sessions[s].aborted /\ sessions[s].pc # "report") => sessions'[s].pc # "report"]_vars

\* the sessions of tab t whose provider call has not settled yet
runningSessions(t) ==
    {s \in 1..Len(sessions) :
        sessions[s].tab = t
        /\ sessions[s].pc \in {"prepare", "showModal", "shown", "keepalive", "call"}}

\* C16: a tab-removed event or a tab-updated ("loading") event for tab t leaves
\* the signal of every session in flight for t aborted.
C16_TabEventAbortsSession ==
    [][\A t \in Tabs :
          (TabRemoved(t) \/ TabUpdated(t)) => \A s \in runningSessions(t) : sessions'[s].aborted]_vars

\* C17: when the keepalive port of the modal that a session has shown
\* disconnects (the modal was closed, or the page went away) while the session
\* is waiting for the port or running its call, the session's signal is aborted.
C17_PortDisconnectAbortsSession ==
    [][\A p \in 1..Len(ports) :
          (PortDisconnected(p) /\ sessions[ports[p].owner].pc \in {"shown", "keepalive", "call"})
              => sessions'[ports[p].owner].aborted]_vars

\* a step of the service worker or of a page that belongs to tab a: a click on
\* a, a step of a session of a, an event of a port of a, a lifecycle event of a
stepOfTab(a) ==
    \/ sanitizeTab(a)
    \/ sanitizeProtected(a)
    \/ TabRemoved(a)
    \/ TabUpdated(a)
    \/ CloseModal(a)
    \/ keepAlivePortDisconnected(a)
    \/ \E s \in 1..Len(sessions) :
          /\ sessions[s].tab = a
          /\ \/ PrepareFails(s)
             \/ NoContent(s)
             \/ waitForKeepalive(s)
             \/ ShowModal(s)
             \/ ShowModalResponds(s)
             \/ ShowModalFails(s)
             \/ KeepaliveConnected(s)
             \/ KeepaliveTimeout(s)
             \/ CallSettles(s)
             \/ ShowErrorModal(s)
             \/ ReportDone(s)
    \/ \E p \in 1..Len(ports) :
          /\ ports[p].tab = a
          /\ onConnect(p) \/ PortDropped(p) \/ PortDisconnected(p)

\* nothing of tab b changes: its registry entries, its sessions (their signals
\* included), its ports, its modal and its page
tabUntouched(b) ==
    /\ tabAbortControllers'[b] = tabAbortControllers[b]
    /\ keepalivePending'[b] = keepalivePending[b]
    /\ \A s \in 1..Len(sessions) : sessions[s].tab = b => sessions'[s] = sessions[s]
    /\ \A s \in 1..Len(sessions') : s > Len(sessions) => sessions'[s].tab # b
    /\ \A p \in 1..Len(ports) : ports[p].tab = b => ports'[p] = ports[p]
    /\ modal'[b] = modal[b]
    /\ url'[b] = url[b]

\* C19: a step that belongs to tab a (an abort trigger, a registry update, the
\* completion of a session, any other step of a's sessions and ports) leaves
\* the controller entry, the pending entry, the sessions and their signals of
\* every other tab b as they were.
C19_TabsDoNotInteract ==
    [][\A a \in Tabs : stepOfTab(a) => \A b \in Tabs \ {a} : tabUntouched(b)]_vars

\* two tabs have a call running each; the signal of one has fired, the other's not
C19_Witness ==
    \E s1, s2 \in 1..Len(sessions) :
        /\ sessions[s1].tab # sessions[s2].tab
        /\ sessions[s1].pc = "call" /\ sessions[s1].aborted
        /\ sessions[s2].pc = "call" /\ ~sessions[s2].aborted

\* C20: once a session has ended, on whichever path (success, error,
\* cancellation, protected URL, page without content), tabAbortControllers
\* holds no entry with that session's controller.
C20_NoEntryOfEndedSession ==
    \A t \in Tabs :
        tabAbortControllers[t] # 0 => sessions[tabAbortControllers[t]].pc # "ended"

\* sessions have ended on two different paths, one of them an early return
C20_Witness ==
    /\ \E s \in 1..Len(sessions) :
          sessions[s].pc = "ended" /\ sessions[s].how \in {"protected", "nocontent"}
    /\ \E s \in 1..Len(sessions) :
          sessions[s].pc = "ended" /\ sessions[s].how \in {"ok", "cancelled", "error"}

(***************************************************************************)
(* Claims about ChromeSummarizerProvider.call (SpecSumm).                  *)
(***************************************************************************)
\* the suspension points of ChromeSummarizerProvider.call that wait for the
\* backend to create a summarizer, to summarize and to stream
SummSuspensionPoints == {"create", "summarize", "stream"}

\* C11: when the cancellation signal fires while the call is suspended at the
\* summarizer's creation, at a summarize or at a fragment of the streamed
\* summary, the call rejects with the AbortError there and then, without
\* waiting for the pending backend operation.
C11_AbortRejectsWithinSuspension ==
    (aborted /\ abortAt.pc \in SummSuspensionPoints)
        => (pc \in {"rejected", "ended"} /\ outcome = Rejected(AbortErr))

\* C12: when the signal has fired during the call and the session has ended
\* (sanitizeTab's finally has called provider.destroy()), no summarizer that
\* the call's Summarizer.create made is left alive.
C12_SummarizerReleasedOnAbort ==
    (aborted /\ pc = "ended") => session # "live"

(***************************************************************************)
(* Claims about the chunk budget (SpecBudget).                             *)
(***************************************************************************)
\* the context size in effect: the setting, else the detected value, else 4096,
\* and at least 512
effectiveCtx ==
    LET raw == IF contextLength # 0 THEN contextLength
               ELSE IF detected # 0 THEN detected ELSE 4096
    IN  IF raw < 512 THEN 512 ELSE raw

\* C18: the chunk budget is max(256, ctx - promptTokensEst - 1024) tokens, ctx
\* being the effective context size of at least 512 and promptTokensEst the
\* prompt's length divided by 3 and rounded up; at 3 characters a token it is
\* at least 768 characters.
C18_ChunkBudget ==
    pc = "budget_done" =>
        LET est == (promptLength + 2) \div 3
            tokens == effectiveCtx - est - 1024
        IN  /\ maxChunkChars = 3 * (IF tokens < 256 THEN 256 ELSE tokens)
            /\ maxChunkChars >= 768

\* a budget above the floor has been computed from a detected context size, and
\* the prompt's estimate was rounded up
C18_Witness ==
    /\ pc = "budget_done"
    /\ contextLength = 0
    /\ detected > 512
    /\ promptLength % 3 = 1
    /\ maxChunkChars > 768

(***************************************************************************)
(* Claims about the chunk timer, the error messages and the overflow       *)
(* recovery of OpenAIAgentsProvider.call (SpecCall).                       *)
(***************************************************************************)
\* C21: each attempt is a race between the streaming operation and the chunk
\* timer. When the timer fires while the operation is pending, the attempt
\* ends as a timeout, no re-split and no further submission follows, and the
\* call rejects with the timeout message; an attempt that the operation has
\* settled keeps its result whatever the timer does afterwards.
C21_ChunkTimerRace ==
    [][/\ Timeout =>
              /\ settled'[Len(settled')] = "timeout"
              /\ submitted' = submitted
              /\ pc' = "rejected"
              /\ outcome' = Rejected(Err("Error", MsgFmtTimeout))
       /\ \A s \in 1..Len(settled) : settled[s] # "inflight" => settled'[s] = settled[s]
       /\ \A s \in 1..Len(settled') : settled'[s] = "timeout" => s = Len(submitted')]_vars

\* a chunk has succeeded, the timer has fired on a later attempt whose inner
\* function is still running, and the call has rejected with the timeout message
C21_Witness ==
    /\ Len(settled) >= 2
    /\ settled[1] = "ok"
    /\ settled[Len(settled)] = "timeout"
    /\ inFlight # {}
    /\ pc = "rejected"
    /\ outcome.message = MsgFmtTimeout

(***************************************************************************)
(* Claims about the surfaced error messages (SpecErr).                     *)
(***************************************************************************)
\* the message the host is to see for an error of each origin
surfacedFor(kind, message) ==
    IF kind = "timeout" THEN MsgFmtTimeout
    ELSE IF kind = "overflow" THEN MsgFmtContext
    ELSE IF kind = "network" THEN MsgFmtNetwork
    ELSE message

\* C22: a terminal error is surfaced as one message determined by its kind:
\* a timeout with the message that suggests a reduced context length, an
\* overflow that was not recovered with the context-size message, a network
\* failure with the message that suggests checking the endpoint, any other
\* error with its own message.
C22_MessageByKind ==
    (pc = "rejected" /\ thrown.kind \in {"timeout", "overflow", "network", "generic"})
        => outcome = Rejected(Err("Error", surfacedFor(thrown.kind, thrown.message)))

(***************************************************************************)
(* Claims about the availability probe and destroy() of                    *)
(* ChromeSummarizerProvider (SpecSumm).                                    *)
(***************************************************************************)
\* C23: the probe is evaluated before any summarizer is created and before any
\* generation request; when it reports the backend unavailable (no Summarizer
\* API, or the model unavailable), the call creates no summarizer, makes no
\* request, emits nothing, and rejects with an Error whose message is the
\* probe's reason, character for character.
C23_UnavailableBackendNotUsed ==
    /\ pc \in {"new", "checkAvailability"} => (session = "none" /\ submitted = << >>)
    /\ (availability \in {"absent", "unavailable"} /\ pc \notin {"new", "checkAvailability"}) =>
           /\ session = "none"
           /\ _summarizer = "none"
           /\ submitted = << >>
           /\ emitted = << >>
           /\ outcome = Rejected(Err("Error", IF availability = "absent"
                                              THEN ReasonNoApi ELSE ReasonNoModel))

\* the probe has reported the model unavailable and the call has rejected with
\* that reason
C23_Witness ==
    /\ availability = "unavailable"
    /\ pc = "rejected"
    /\ outcome.message = ReasonNoModel

\* C24: destroy() is idempotent. Whenever it is called on a provider whose call
\* has not started or has settled (resolved, failed or cancelled), it leaves no
\* summarizer in the provider; called on a provider that holds none it changes
\* nothing; and the summarizer's own destroy() is invoked at most once.
C24_DestroyIdempotent ==
    [][/\ destroy => _summarizer' = "none"
       /\ (destroy /\ _summarizer = "none") =>
              (session' = session /\ released' = released)
       /\ released' <= 1]_vars

\* destroy() has run on a provider that holds a summarizer after a cancelled
\* call, and can run again
C24_Witness ==
    /\ pc = "ended"
    /\ aborted
    /\ released = 1
    /\ session = "destroyed"
    /\ _summarizer = "none"

(***************************************************************************)
(* Claims about the abort triggers (SpecTabs).                             *)
(***************************************************************************)
\* a trigger of tab t: chrome.tabs.onRemoved, chrome.tabs.onUpdated
\* ("loading"), or onDisconnect of a port of t that carries the listener
triggerOf(t) ==
    \/ TabRemoved(t)
    \/ TabUpdated(t)
    \/ \E p \in 1..Len(ports) : ports[p].tab = t /\ ports[p].listener /\ PortDisconnected(p)

\* C25: firing a session's signal is idempotent. Under every number and order
\* of triggers, the controller that a trigger finds has not been aborted
\* before and belongs to a session that has not ended (so abort() is invoked
\* at most once per signal); a trigger that finds none changes no session; a
\* session that has ended is never changed again; and a trigger of a session
\* that has ended has no effect: when a port carries a listener and every
\* session of its tab that has not ended is either before the registration of
\* its listener or in its call with another port, the session that registered
\* the listener has ended, and the port's disconnect aborts no session and
\* removes no entry.
C25_AbortIdempotent ==
    [][/\ \A t \in Tabs :
              triggerOf(t) =>
                  LET s == tabAbortControllers[t]
                  IN  /\ s # 0 => (~sessions[s].aborted /\ sessions[s].pc # "ended"
                                     /\ sessions'[s].aborted)
                      /\ s = 0 => sessions' = sessions
                      /\ \A r \in 1..Len(sessions) : r # s => sessions'[r] = sessions[r]
                      /\ tabAbortControllers'[t] = 0
       /\ \A s \in 1..Len(sessions) : sessions[s].pc = "ended" => sessions'[s] = sessions[s]
       /\ \A p \in 1..Len(ports) :
              (/\ PortDisconnected(p)
               /\ ports[p].listener
               /\ \A s \in 1..Len(sessions) :
                      (sessions[s].tab = ports[p].tab /\ sessions[s].pc # "ended") =>
                          \/ sessions[s].pc \in {"prepare", "showModal", "shown", "keepalive"}
                          \/ sessions[s].pc = "call" /\ sessions[s].port # p)
                  => (sessions' = sessions /\ tabAbortControllers' = tabAbortControllers)]_vars

(***************************************************************************)
(* Further claims about splitText (SpecSplit).                             *)
(***************************************************************************)
\* C26: splitText is idempotent on a conforming text: a text no longer than
\* the bound comes back as the one chunk it is, and every chunk that
\* splitText(T, B) returns, split again with the same B, comes back unchanged.
C26_SplitIdempotent ==
    pc = "split_done" =>
        /\ Len(text) <= maxChars => chunks = << text >>
        /\ \A k \in 1..Len(chunks) : splitText(chunks[k], maxChars) = << chunks[k] >>

\* a text longer than the bound was split into several chunks, one of them
\* exactly as long as the bound
C26_Witness ==
    /\ pc = "split_done"
    /\ Len(text) > maxChars
    /\ Len(chunks) >= 2
    /\ \E k \in 1..Len(chunks) : Len(chunks[k]) = maxChars

(***************************************************************************)
(* Claims about the overflow recovery of OpenAIAgentsProvider.call         *)
(* (SpecCall).                                                             *)
(***************************************************************************)
\* the submission whose failure made submission s (of depth > 0): the latest
\* one before s at the depth above
triggerOfSub(s) ==
    CHOOSE r \in 1..(s - 1) :
        /\ submitted[r].depth = submitted[s].depth - 1
        /\ \A q \in (r + 1)..(s - 1) : submitted[q].depth # submitted[s].depth - 1

\* C27: a sub-chunk is submitted at depth d+1 only after a chunk at depth
\* d < 2 has failed with an overflow, and it is strictly shorter than that
\* chunk: the same text is never resubmitted.
C27_SubChunksStrictlyShorter ==
    \A s \in 1..Len(submitted) :
        submitted[s].depth > 0 =>
            LET r == triggerOfSub(s)
            IN  /\ settled[r] = "overflow"
                /\ submitted[r].depth < 2
                /\ topOf(r) = topOf(s)
                /\ Len(submitted[s].chunk) < Len(submitted[r].chunk)

\* C28: a submission that failed with anything but an overflow (a backend
\* error of another kind, the chunk timer, a cancellation), or with an overflow
\* at retry depth 2, is the last submission of the call: nothing is re-split or
\* submitted after it, the later chunks included, and the call has rejected
\* with that error.
C28_FailurePropagates ==
    \A s \in 1..Len(submitted) :
        (\/ settled[s] \in {"error", "timeout", "aborted"}
         \/ settled[s] = "overflow" /\ submitted[s].depth = 2) =>
            /\ s = Len(submitted)
            /\ pc = "rejected"
            /\ stack = << >>
            /\ outcome = (CASE settled[s] = "error" -> Rejected(Err("Error", MsgFmtNetwork))
                            [] settled[s] = "timeout" -> Rejected(Err("Error", MsgFmtTimeout))
                            [] settled[s] = "aborted" -> Rejected(AbortErr)
                            [] OTHER -> Rejected(Err("Error", MsgFmtContext)))

C28_Witness ==
    /\ pc = "rejected"
    /\ Len(chunks) >= 2 /\ i = 0
    /\ Len(submitted) = 3
    /\ submitted[3].depth = 2 /\ settled[3] = "overflow"
    /\ outcome.message = MsgFmtContext

\* C29: the retry depth belongs to one top-level chunk: the first submission of
\* every top-level chunk is at depth 0, a submission is one level below the one
\* whose failure made it, the depth of every submission and of every invocation
\* of _processChunkWithRetry is in 0..2 (MAX_RETRY_DEPTH), and an overflow at a
\* depth below 2 is re-split whatever recovery the earlier chunks have used.
C29_DepthPerTopChunk ==
    [][/\ \A s \in 1..Len(submitted') :
              /\ submitted'[s].depth \in 0..2
              /\ (s = 1 \/ submitted'[s - 1].top # submitted'[s].top) => submitted'[s].depth = 0
              /\ (s > 1 /\ submitted'[s - 1].top = submitted'[s].top) =>
                     submitted'[s].depth <= submitted'[s - 1].depth + 1
       /\ \A j \in 1..Len(stack') : stack'[j].retryDepth = j - 1 /\ j <= 3
       /\ \A s \in 1..Len(settled) :
              (settled[s] = "inflight" /\ settled'[s] = "overflow" /\ submitted[s].depth < 2) =>
                  /\ pc' = "subloop"
                  /\ Len(stack') = submitted[s].depth + 1
                  /\ stack'[Len(stack')].retrying
                  /\ stack'[Len(stack')].subChunks =
                         splitText(submitted[s].chunk, maxChunkChars \div 2)]_vars

C29_Witness ==
    \E s \in 1..Len(submitted) : \E r \in 1..(s - 1) :
        /\ submitted[r].top = 1 /\ submitted[r].depth = 2
        /\ submitted[s].top = 2 /\ submitted[s].depth = 2
        /\ \E q \in (r + 1)..(s - 1) : submitted[q].top = 2 /\ submitted[q].depth = 0

(***************************************************************************)
(* Claim about the chunk boundaries of splitText (SpecSplit).              *)
(***************************************************************************)
\* the four separators in the order of their priority: paragraph break, line
\* break, period-space, space
separatorsByPriority == << <<"\n", "\n">>, <<"\n">>, <<".", " ">>, <<" ">> >>

\* whether sep occurs somewhere in s
occursIn(s, sep) == \E at \in 1..Len(s) : occursAt(s, sep, at)

\* s has none of the four separators
separatorFree(s) == \A j \in 1..4 : ~occursIn(s, separatorsByPriority[j])

\* s is made of occurrences of separators only (line breaks, spaces, and
\* periods followed by a space)
separatorRun(s) ==
    \A q \in 1..Len(s) :
        \/ s[q] \in {NL, " "}
        \/ s[q] = "." /\ q < Len(s) /\ s[q + 1] = " "

\* the boundary between two consecutive chunks left and right that lie in the
\* text with gap between them: without a gap it is a cut of the hard slice
\* (left is a full slice of maxChars characters, and neither side has a
\* separator); with a gap, the gap is a run of separators, and no separator of
\* a higher priority than the first one occurring in the gap occurs in
\* left \o gap \o right
boundaryOK(left, gap, right) ==
    IF gap = << >>
    THEN Len(left) = maxChars /\ separatorFree(left) /\ separatorFree(right)
    ELSE /\ separatorRun(gap)
         /\ \E j \in 1..4 :
                /\ occursIn(gap, separatorsByPriority[j])
                /\ \A h \in 1..(j - 1) : ~occursIn(left \o gap \o right, separatorsByPriority[h])

RECURSIVE chunksLieFrom(_, _)
\* the chunks k, k+1, ... lie in the text in this order from position `from` on
\* (the position after chunk k-1), every boundary being as boundaryOK says and
\* what is left of the text after the last chunk being a run of separators
chunksLieFrom(k, from) ==
    IF k > Len(chunks)
    THEN separatorRun(SubSeq(text, from, Len(text)))
    ELSE \E at \in from..(Len(text) - Len(chunks[k]) + 1) :
             /\ SubSeq(text, at, at + Len(chunks[k]) - 1) = chunks[k]
             /\ IF k = 1
                THEN separatorRun(SubSeq(text, from, at - 1))
                ELSE boundaryOK(chunks[k - 1], SubSeq(text, from, at - 1), chunks[k])
             /\ chunksLieFrom(k + 1, at + Len(chunks[k]))

\* C30: in the output of splitText(T, B) two consecutive chunks touch inside a
\* run of characters only where the hard slice has cut a piece longer than B
\* that has none of the four separators; every other boundary is at an
\* occurrence in T of the highest-priority separator present in the piece that
\* was divided there.
C30_BoundariesAtSeparators ==
    pc = "split_done" => chunksLieFrom(1, 1)

C30_Witness ==
    /\ pc = "split_done"
    /\ maxChars = 2
    /\ text = <<"a", "a", "a", NL, "a">>
    /\ chunks = << <<"a", "a">>, <<"a">>, <<"a">> >>

(***************************************************************************)
(* Claims about the merge pass and the recursion of _splitRecursive        *)
(* (SpecSplit).                                                            *)
(***************************************************************************)
\* the separator at which splitText cuts a text that is too long: the first
\* of the four that occurs in it (0 when none does)
firstSeparatorIn(s) ==
    IF \E j \in 1..4 : occursIn(s, separatorsByPriority[j])
    THEN CHOOSE j \in 1..4 : /\ occursIn(s, separatorsByPriority[j])
                             /\ \A h \in 1..(j - 1) : ~occursIn(s, separatorsByPriority[h])
    ELSE 0

\* the length of the pieces a..b joined with a separator of sepLen characters
joinedLen(pieces, a, b, sepLen) ==
    LET RECURSIVE sum(_)
        sum(k) == IF k > b THEN 0 ELSE Len(pieces[k]) + sum(k + 1)
    IN  sum(a) + sepLen * (b - a)

RECURSIVE fewestChunks(_, _, _, _)
\* the least number of chunks of at most maxC characters, each a run of
\* adjacent pieces joined with the separator, that hold every non-empty piece
\* from index k on
fewestChunks(pieces, k, sepLen, maxC) ==
    IF \A q \in k..Len(pieces) : pieces[q] = << >>
    THEN 0
    ELSE LET a == CHOOSE q \in k..Len(pieces) :
                      pieces[q] # << >> /\ \A h \in k..(q - 1) : pieces[h] = << >>
             ends == {b \in a..Len(pieces) : joinedLen(pieces, a, b, sepLen) <= maxC}
             counts == {1 + fewestChunks(pieces, b + 1, sepLen, maxC) : b \in ends}
         IN  CHOOSE n \in counts : \A m \in counts : n <= m

\* C31: the merge pass is greedy. When a text longer than B is cut at one
\* separator and every piece is at most B long, every chunk is at most B, a
\* chunk joined by the separator with the first piece of the next chunk is
\* longer than B, and no cut at that separator holds the pieces in fewer chunks.
C31_GreedyMerge ==
    (pc = "split_done" /\ Len(text) > maxChars /\ firstSeparatorIn(text) # 0) =>
        LET sep == separatorsByPriority[firstSeparatorIn(text)]
            pieces == split(text, sep)
        IN  (\A q \in 1..Len(pieces) : Len(pieces[q]) <= maxChars) =>
                /\ \A k \in 1..Len(chunks) : Len(chunks[k]) <= maxChars
                /\ \A k \in 1..(Len(chunks) - 1) :
                       Len(chunks[k]) + Len(sep) + Len(split(chunks[k + 1], sep)[1]) > maxChars
                /\ Len(chunks) = fewestChunks(pieces, 1, Len(sep), maxChars)

C31_Witness ==
    /\ pc = "split_done"
    /\ maxChars = 3
    /\ text = <<"a", " ", "a", " ", "a">>
    /\ chunks = << <<"a", " ", "a">>, <<"a">> >>

\* what the invocations still to run weigh: every one counts its text (and one
\* more) once for every level of the cascade it can still go through
pendingWeight(items) ==
    LET RECURSIVE sum(_)
        sum(k) == IF k > Len(items) THEN 0
                  ELSE (IF items[k].returned THEN 0
                        ELSE (Len(items[k].chunk) + 1) * (5 - items[k].sepIdx)) + sum(k + 1)
    IN  sum(1)

\* C32: splitText(T, B) terminates for B >= 1. Every invocation of
\* _splitRecursive strictly lowers the weight of what is still to run; a nested
\* invocation has the next separator index (never the same or a lower one), so
\* the index is in 0..4 and at most 5 invocations are nested: one per
\* separator and the hard slice. The chunks it ends with are splitText's.
C32_SplitTerminates ==
    [][/\ pc = "rec" =>
              /\ pendingWeight(pending') < pendingWeight(pending)
              /\ \A q \in 1..Len(pending') :
                     \/ \E r \in 2..Len(pending) : pending'[q] = pending[r]
                     \/ /\ ~pending'[q].returned
                        /\ pending'[q].sepIdx = pending[1].sepIdx + 1
                        /\ pending'[q].depth = pending[1].depth + 1
                     \/ /\ pending'[q].returned
                        /\ pending'[q].sepIdx = pending[1].sepIdx
       /\ \A q \in 1..Len(pending') :
              /\ pending'[q].sepIdx \in 0..4
              /\ pending'[q].depth = pending'[q].sepIdx + 1
              /\ pending'[q].depth <= 5
       /\ pendingWeight(pending') <= 5 * (Len(text) + 1)
       /\ pc' = "rec_done" => (pending' = << >> /\ chunks' = splitText(text, maxChars))]_vars

C32_Witness ==
    /\ pc = "rec"
    /\ pending # << >>
    /\ pending[1].depth = 5 /\ pending[1].sepIdx = 4
    /\ chunks # << >>

(***************************************************************************)
(* Claims about the context size and the chunk budget of                   *)
(* OpenAIAgentsProvider.call (SpecBudget).                                 *)
(***************************************************************************)
\* the chunk budget in characters that a context size of ctx tokens gives
budgetCharsOf(ctx) ==
    LET est == (promptLength + 2) \div 3
        tokens == (IF ctx < 512 THEN 512 ELSE ctx) - est - 1024
    IN  3 * (IF tokens < 256 THEN 256 ELSE tokens)

\* C33: the context size behind the budget is the explicit setting if there is
\* one, else the value detected from the backend, else 4096. With a setting
\* the budget is computed at once, without a detection; without one the
\* detection is made, and when it gives nothing (it failed or had no value)
\* the budget is computed from 4096: the call goes on in every case.
C33_ContextPriority ==
    [][/\ (pc = "budget_input" /\ contextLength # 0) =>
              /\ pc' = "budget_done"
              /\ maxChunkChars' = budgetCharsOf(contextLength)
       /\ (pc = "budget_input" /\ contextLength = 0) =>
              /\ pc' = "detecting"
              /\ maxChunkChars' = maxChunkChars
       /\ pc = "detecting" =>
              /\ contextLength = 0
              /\ pc' = "budget_done"
              /\ maxChunkChars' = budgetCharsOf(IF detected # 0 THEN detected ELSE 4096)]_vars

\* without a setting the detection gave nothing and the budget is that of 4096
\* tokens
C33_Witness ==
    /\ pc = "budget_done"
    /\ contextLength = 0 /\ detected = 0 /\ promptLength = 0
    /\ maxChunkChars = 3 * (4096 - 1024)

(***************************************************************************)
(* Claims about ChromeSummarizerProvider.call (SpecSumm).                  *)
(***************************************************************************)
\* C34: _recursiveSummarize ends after finitely many rounds whatever the
\* backend returns, and what it returns fits in maxChars. The call is
\* deterministic but for the backend's answers, so a round that starts with
\* the very chunks the round before started with can start over for ever: no
\* round starts so, and the text handed to _streamSummary after a round is at
\* most maxChars long.
C34_SummarizeTerminates ==
    [][/\ (pc' = "summarize" /\ rounds >= 1 /\ rounds' > rounds) => chunks' # chunks
       /\ (pc = "summarize" /\ pc' = "stream" /\ rounds' >= 1) =>
              Len(submitted'[Len(submitted')].text) <= maxChars]_vars

(***************************************************************************)
(* Claims about a settled OpenAIAgentsProvider.call (SpecCall).            *)
(***************************************************************************)
\* C35: once the call has settled (resolved, or rejected for whatever reason,
\* the chunk timer included) nothing is done on its behalf any more: no delta
\* goes to onUpdate and nothing is read from the backend's stream.
C35_QuietAfterSettle ==
    [][/\ pc \in {"resolved", "rejected"} => emitted' = emitted
       /\ pc \in {"resolved", "rejected"} => chunkText' = chunkText
       /\ (pc \in {"resolved", "rejected"} /\ inner = "read") => stream' = stream]_vars

(***************************************************************************)
(* Claim about two sessions of one tab (SpecTabs).                         *)
(***************************************************************************)
\* C36: the controller of a session in flight whose signal has not fired stays
\* registered under its tab. The cleanup of a session (the finally blocks of
\* sanitizeTab) leaves an entry that belongs to another session in place, and
\* the disconnect handler of a session's keepalive port neither aborts nor
\* removes the controller of another session.
C36_ControllerStaysRegistered ==
    [][/\ \A s \in 1..Len(sessions') :
              (sessions'[s].pc \in {"prepare", "showModal", "shown", "keepalive", "call"}
                   /\ ~sessions'[s].aborted) =>
                  tabAbortControllers'[sessions'[s].tab] = s
       /\ \A s \in 1..Len(sessions) : \A t \in Tabs :
              ((NoContent(s) \/ CallSettles(s) \/ ReportDone(s))
                   /\ tabAbortControllers[t] \notin {0, s}) =>
                  tabAbortControllers'[t] = tabAbortControllers[t]
       /\ \A p \in 1..Len(ports) : \A r \in 1..Len(sessions) :
              (PortDisconnected(p) /\ ports[p].listener /\ r # ports[p].owner) =>
                  /\ sessions'[r].aborted = sessions[r].aborted
                  /\ \A t \in Tabs : tabAbortControllers[t] = r => tabAbortControllers'[t] = r]_vars

\* C37: overflow recovery (the loop over the sub-chunks of a re-split) is
\* entered only when the backend has rejected or failed a submission with an
\* overflow: never by the step of the chunk timer or of the cancellation
\* signal, and never for a submission that ended as timed out or cancelled.
\* After such a submission nothing more is submitted.
C37_RecoveryOnlyForBackendOverflow ==
    [][/\ (pc = "await" /\ pc' = "subloop" /\ Len(stack') = Len(stack)) =>
              /\ stack'[Len(stack')].retrying
              /\ settled'[Len(settled')] = "overflow"
              /\ ~Timeout
              /\ aborted' = aborted
              /\ Len(submitted') = Len(submitted)
       /\ \A s \in 1..Len(settled') :
              (settled'[s] \in {"timeout", "aborted"}) =>
                  /\ pc' = "rejected"
                  /\ Len(submitted') = s
                  /\ outcome'.name = (IF settled'[s] = "aborted" THEN "AbortError" ELSE "Error")]_vars

\* a sub-chunk at depth 1 timed out: no second re-split although depth 2 was left
C37_Witness ==
    /\ pc = "rejected"
    /\ Len(submitted) = 2
    /\ settled[1] = "overflow"
    /\ submitted[2].depth = 1
    /\ settled[2] = "timeout"
    /\ outcome.message = MsgFmtTimeout

\* C38: in overflow recovery, when the signal is aborted at the moment the next
\* sub-chunk would start, the call rejects in that step with the AbortError
\* itself (not with a normalized message) and no sub-chunk is submitted any
\* more, at whatever depth the loop was.
C38_AbortInRecovery ==
    [][/\ (pc = "subloop" /\ aborted /\ stack[Len(stack)].k < Len(stack[Len(stack)].subChunks)) =>
              /\ pc' = "rejected"
              /\ outcome' = [kind |-> "error", content |-> << >>, name |-> "AbortError",
                             message |-> MsgCancelled]
              /\ stack' = << >>
              /\ submitted' = submitted
       /\ (aborted /\ abortAt.pc = "subloop") =>
              /\ Len(submitted') = abortAt.nSub
              /\ emitted' = emitted
              /\ pc' = "rejected" => outcome'.name = "AbortError"]_vars

\* the signal fired in the recovery of a chunk between its two sub-chunks, at
\* depth 1, and the call rejected with the AbortError
C38_Witness ==
    /\ pc = "rejected"
    /\ abortAt.pc = "subloop"
    /\ settled = <<"overflow", "ok">>
    /\ submitted[2].depth = 1
    /\ outcome.name = "AbortError"

\* C39 as stated: the content budget, the prompt estimate and the response
\* buffer together fit in the context size, for every context size and prompt
\* length.
C39_BudgetFitsAlways ==
    pc = "budget_done" =>
        maxChunkChars \div 3 + (promptLength + 2) \div 3 + 1024 <= effectiveCtx

\* C39: the content budget, the prompt estimate and the response buffer add up
\* to exactly the context size whenever the context size is at least the
\* prompt estimate plus 1024 plus 256 tokens; for a smaller context size the
\* content budget is the floor of 256 tokens and the three exceed it.
C39_BudgetFitsAboveFloor ==
    pc = "budget_done" =>
        LET est == (promptLength + 2) \div 3
            tokens == maxChunkChars \div 3
        IN  /\ maxChunkChars = 3 * tokens
            /\ effectiveCtx >= est + 1024 + 256 => tokens + est + 1024 = effectiveCtx
            /\ effectiveCtx < est + 1024 + 256 =>
                   (tokens = 256 /\ tokens + est + 1024 > effectiveCtx)

\* a context of 2048 tokens set by the user and a prompt that does not fill a
\* last token: the three add up to the context size
C39_Witness ==
    /\ pc = "budget_done"
    /\ contextLength = 2048
    /\ promptLength = 769
    /\ maxChunkChars = 3 * (2048 - 257 - 1024)

\* C40: whatever settings.contextLength and the summarizer's inputQuota are
\* (zero, negative and missing values included), the character budget that
\* ChromeSummarizerProvider.call hands to splitText is at least 1, and the
\* split returns
C40_SummarizerBudgetAtLeastOne ==
    [][(CreateResolves /\ pc = "create" /\ ~aborted) =>
           (maxChars' >= 1 /\ pc' # "splitting")]_vars

====
